---- MODULE Spec2Model ----
(***************************************************************************)
(* Model of the RBNZ CBP mapping engine (src/mapping.py, class RBNZMapper). *)
(* One run of RBNZMapper.run over one workbook: the period pre-scan, the    *)
(* per-sheet / per-column series extraction, code generation with the      *)
(* collision registry, metadata classification and the two output          *)
(* assemblers.                                                             *)
(*                                                                         *)
(* Conventions.  Rows and columns are 1-based here (Python index + 1).     *)
(* An optional value is a sequence of length <= 1: <<>> is None, <<v>> is  *)
(* the value v.  A quarter label "YYYY-Qn" is the pair <<year, n>>; its    *)
(* text, which is what the code sorts, is computed by LabelStr.            *)
(***************************************************************************)
EXTENDS Integers, Sequences, FiniteSets, TLC

(* ------------------------------------------------------------------ *)
(* Bounds of the model (not program constants)                         *)
(* ------------------------------------------------------------------ *)
MaxSheets == 2
MaxFaults == 1
MaxExtraRows == 2
MaxRuns == 2
ProbeYears == 2
MaxParts == 2
DescLen == 4
MaxDates == 2
MaxWords == 2

(* ------------------------------------------------------------------ *)
(* Program constants                                                    *)
(* ------------------------------------------------------------------ *)
MinPoints == 8
DateCols == 3
SerialMax == 80000
YearMin == 1990
YearMax == 2030

None == <<>>
Some(v) == <<v>>

Min(a, b) == IF a < b THEN a ELSE b
Max(a, b) == IF a > b THEN a ELSE b

\* the least and the greatest element of a non-empty set of numbers
First(S) == CHOOSE i \in S : \A j \in S : i <= j
Last(S) == CHOOSE i \in S : \A j \in S : j <= i

\* the list whose i-th entry is f[i], for f with domain 1..n
List(f) == SubSeq(f, 1, Len(f))

(* ------------------------------------------------------------------ *)
(* Cells of a sheet as pandas hands them to the code                   *)
(* ------------------------------------------------------------------ *)
Empty == [t |-> "E"]
Txt(ws) == [t |-> "T", w |-> ws]
Num(n) == [t |-> "N", v |-> n]
Native(y, m) == [t |-> "D", y |-> y, m |-> m]
Fld(v, w) == [v |-> v, w |-> w]
DStr(sep, a, b, c) == [t |-> "S", sep |-> sep, f |-> <<a, b, c>>]

(* ------------------------------------------------------------------ *)
(* Calendar                                                            *)
(* ------------------------------------------------------------------ *)
IsLeap(y) == (y % 4 = 0) /\ ((y % 100 # 0) \/ (y % 400 = 0))

DaysInMonth(y, m) ==
    IF m = 2 THEN (IF IsLeap(y) THEN 29 ELSE 28)
    ELSE IF m \in {4, 6, 9, 11} THEN 30 ELSE 31

\* The proleptic Gregorian date of day number z, counted from 0000-03-01,
\* in steps: era (400 years), day of era, year of era, day of year (from
\* 1 March), month (from March).
CivilDate(y, m, d) == <<IF m <= 2 THEN y + 1 ELSE y, m, d>>
FromMonth(y, doy, mp) ==
    CivilDate(y, IF mp < 10 THEN mp + 3 ELSE mp - 9, doy - ((153 * mp + 2) \div 5) + 1)
FromDayOfYear(y, doy) == FromMonth(y, doy, (5 * doy + 2) \div 153)
FromYearOfEra(era, doe, yoe) ==
    FromDayOfYear(yoe + era * 400, doe - (365 * yoe + (yoe \div 4) - (yoe \div 100)))
FromDayOfEra(era, doe) ==
    FromYearOfEra(era, doe,
        (doe - (doe \div 1460) + (doe \div 36524) - (doe \div 146096)) \div 365)
FromDayNumber(z) == FromDayOfEra(z \div 146097, z % 146097)

\* datetime(1899, 12, 30) + n days, as <<year, month, day>>
SerialToDate(n) == FromDayNumber(n + 693899)

\* one strptime directive against one field of a date string
FieldDay(f) == f.w \in {1, 2} /\ f.v >= 1 /\ f.v <= 31
FieldMonth(f) == f.w \in {1, 2} /\ f.v >= 1 /\ f.v <= 12
FieldYear(f) == f.w = 4 /\ f.v >= 1 /\ f.v <= 9999

\* datetime.strptime(s, fmt): <<year, month>> when it parses, None otherwise
Strptime(s, fmt) ==
    LET di == fmt.d
        mi == fmt.m
        yi == fmt.y
        ok == /\ s.sep = fmt.sep
              /\ FieldDay(s.f[di])
              /\ FieldMonth(s.f[mi])
              /\ FieldYear(s.f[yi])
              /\ s.f[di].v <= DaysInMonth(s.f[yi].v, s.f[mi].v)
    IN  IF ok THEN Some(<<s.f[yi].v, s.f[mi].v>>) ELSE None

\* the month-first format is tried before the day-first one
date_formatsMutant ==
    << [sep |-> "/", d |-> 2, m |-> 1, y |-> 3],
       [sep |-> "/", d |-> 1, m |-> 2, y |-> 3],
       [sep |-> "-", d |-> 3, m |-> 2, y |-> 1],
       [sep |-> "-", d |-> 1, m |-> 2, y |-> 3],
       [sep |-> "/", d |-> 3, m |-> 2, y |-> 1] >>

date_formats ==
    << [sep |-> "/", d |-> 1, m |-> 2, y |-> 3],
       [sep |-> "/", d |-> 2, m |-> 1, y |-> 3],
       [sep |-> "-", d |-> 3, m |-> 2, y |-> 1],
       [sep |-> "-", d |-> 1, m |-> 2, y |-> 3],
       [sep |-> "/", d |-> 3, m |-> 2, y |-> 1] >>

\* a if it is not None, b otherwise
FirstOf(a, b) == IF a # None THEN a ELSE b

\* the first entry of the list that is not None, None if there is none
FirstSome(list) ==
    IF \A i \in 1..Len(list) : list[i] = None THEN None
    ELSE list[First({i \in 1..Len(list) : list[i] # None})]

\* the date the first format that parses s gives, None if there is none
TryFormats(s) ==
    FirstSome(List([i \in 1..Len(date_formats) |-> Strptime(s, date_formats[i])]))

QuarterMutant(m) == (m \div 3) + 1

Quarter(m) == ((m - 1) \div 3) + 1

\* the label f"{year}-Q{quarter}" of a <<year, month>> pair
QuarterLabel(ym) == <<ym[1], Quarter(ym[2])>>

\* the label of a parsed string date, None when no format matched
ParsedLabel(r) == IF r = None THEN None ELSE Some(QuarterLabel(r[1]))

\* the label of a serial date, None when its year is out of range
SerialLabel(d) ==
    IF YearMin <= d[1] /\ d[1] <= YearMax THEN Some(QuarterLabel(<<d[1], d[2]>>)) ELSE None

\* cell: the cell; npint: the cell was read from an int64 column, so that
\* the value is a numpy integer and fails isinstance(.., (int, float))
format_date_to_quarter(cell, npint) ==
    IF cell.t = "E" THEN None
    ELSE IF cell.t = "D" THEN Some(QuarterLabel(<<cell.y, cell.m>>))
    ELSE IF cell.t = "S" THEN ParsedLabel(TryFormats(cell))
    ELSE IF cell.t = "T" THEN None
    ELSE IF (~npint) /\ 1 <= cell.v /\ cell.v <= SerialMax THEN SerialLabel(SerialToDate(cell.v))
    ELSE None

(* ------------------------------------------------------------------ *)
(* Label text and Python's string order                                *)
(* ------------------------------------------------------------------ *)
RECURSIVE Digits(_)
Digits(n) == IF n < 10 THEN <<48 + n>> ELSE Digits(n \div 10) \o <<48 + (n % 10)>>

\* code points of f"{year}-Q{quarter}"
LabelStr(l) == Digits(l[1]) \o <<45, 81, 48 + l[2]>>

\* a < b for two Python strings, given by their code points: they differ
\* first at position i, where a has ended or holds the lower code point
StrLess(a, b) ==
    \E i \in 1..Len(b) :
        /\ \A j \in 1..(i - 1) : j <= Len(a) /\ a[j] = b[j]
        /\ i > Len(a) \/ a[i] < b[i]

\* the number of labels of S whose text sorts before that of x
Rank(S, x) == Cardinality({y \in S : StrLess(LabelStr(y), LabelStr(x))})

\* sorted(list(S)) for a set S of labels
SortedLabels(S) == List([i \in 1..Cardinality(S) |-> CHOOSE x \in S : Rank(S, x) = i - 1])

\* chronological order of two labels
Earlier(a, b) == a[1] < b[1] \/ (a[1] = b[1] /\ a[2] < b[2])

(* ------------------------------------------------------------------ *)
(* Text: words, cell text, descriptions                                *)
(* ------------------------------------------------------------------ *)
\* A word of a cell text: s its text, n its length, c what
\* re.sub(r'[^\w\s;]', '', .) leaves of it in upper case, k the keywords
\* its lower-cased text contains.
Word(s, n, c, k) == [s |-> s, n |-> n, c |-> c, k |-> k]

Vocabulary ==
    { Word("GDP", 3, "GDP", {}),
      Word("RBNZ", 4, "RBNZ", {}),
      Word("Millions", 8, "MILLIONS", {"millions"}),
      Word("(GDP)", 5, "GDP", {"("}),
      Word("(RBNZ)", 6, "RBNZ", {"("}),
      Word("(Millions)", 10, "MILLIONS", {"millions", "("}),
      Word("CPI", 3, "CPI", {}),
      Word("Index", 5, "INDEX", {"index"}),
      Word("(%)", 3, "", {"%", "("}),
      Word("Percent", 7, "PERCENT", {"percent"}),
      Word("Percentage", 10, "PERCENTAGE", {"percent", "percentage"}),
      Word("Idx", 3, "IDX", {"idx"}),
      Word("$", 1, "", {"$"}),
      Word("Dollars", 7, "DOLLARS", {"dollar"}),
      Word("NZD", 3, "NZD", {"nzd"}),
      Word("Currency", 8, "CURRENCY", {"currency"}),
      Word("000s", 4, "000S", {"000s"}),
      Word("Thousands", 9, "THOUSANDS", {"thousands"}),
      Word("of", 2, "OF", {}),
      Word("Source", 6, "SOURCE", {"source"}),
      Word("Title", 5, "TITLE", {"title"}),
      Word("Data", 4, "DATA", {}),
      Word("from", 4, "FROM", {}),
      Word("sheet", 5, "SHEET", {}),
      Word("column", 6, "COLUMN", {}) }

V(s) == CHOOSE w \in Vocabulary : w.s = s

RECURSIVE MapV(_)
MapV(ss) == IF ss = <<>> THEN <<>> ELSE <<V(Head(ss))>> \o MapV(Tail(ss))

\* a text cell holding the given vocabulary words separated by one blank
Text(ss) == Txt(MapV(ss))

Pad(v, w) ==
    IF w = 4 THEN (IF v < 10 THEN "000" ELSE IF v < 100 THEN "00" ELSE IF v < 1000 THEN "0" ELSE "") \o ToString(v)
    ELSE IF w = 2 /\ v < 10 THEN "0" \o ToString(v)
    ELSE ToString(v)

\* the single word a date string consists of
DateWord(cell) ==
    LET a == Pad(cell.f[1].v, cell.f[1].w)
        b == Pad(cell.f[2].v, cell.f[2].w)
        c == Pad(cell.f[3].v, cell.f[3].w)
    IN  Word(a \o cell.sep \o b \o cell.sep \o c,
             cell.f[1].w + cell.f[2].w + cell.f[3].w + 2,
             a \o b \o c, {})

\* isinstance(cell_value, str)
IsStr(cell) == cell.t \in {"T", "S"}

\* the words of cell_value.strip()
CellWords(cell) == IF cell.t = "S" THEN <<DateWord(cell)>> ELSE cell.w

RECURSIVE SumLen(_)
SumLen(ws) == IF ws = <<>> THEN 0 ELSE Head(ws).n + SumLen(Tail(ws))

\* the length of the text of the words ws, one blank between two words
TextLen(ws) == SumLen(ws) + Max(Len(ws) - 1, 0)

\* len(cell_value.strip())
StrLen(cell) == TextLen(CellWords(cell))

\* keyword in cell_value.lower(), for a keyword without blanks
PartHas(ws, kw) == \E i \in 1..Len(ws) : kw \in ws[i].k

\* keyword in description.lower(); a description is a sequence of parts
DescHas(desc, kw) == \E p \in 1..Len(desc) : PartHas(desc[p], kw)

(* ------------------------------------------------------------------ *)
(* A sheet as a DataFrame                                              *)
(* ------------------------------------------------------------------ *)
NRows(df) == Len(df.rows)
NCols(df) == df.ncols
At(df, r, c) == df.rows[r][c]

\* the column was inferred as int64: every cell of it is an integer
IsInt64(df, c) == NRows(df) > 0 /\ \A r \in 1..NRows(df) : At(df, r, c).t = "N"

\* not pd.isna(pd.to_numeric(cell_value, errors='coerce'))
IsNumeric(cell) == cell.t = "N"

\* format_date_to_quarter(df.iloc[r, c])
DateAt(df, r, c) == format_date_to_quarter(At(df, r, c), IsInt64(df, c))

(* ------------------------------------------------------------------ *)
(* Description extraction.  A description is the sequence of its       *)
(* ';'-separated parts, a part is the sequence of the words of one     *)
(* cell; None (<<>>) is the result of a pattern that found nothing.    *)
(* ------------------------------------------------------------------ *)
\* the texts of rows lo..hi of column c that are longer than minlen
ColParts(df, c, lo, hi, minlen) ==
    LET IsPart(r) == IsStr(At(df, r, c)) /\ StrLen(At(df, r, c)) > minlen
        rows == SelectSeq([i \in 1..(hi - lo + 1) |-> lo + i - 1], IsPart)
    IN  List([i \in 1..Len(rows) |-> CellWords(At(df, rows[i], c))])

Take(s, n) == SubSeq(s, 1, Min(n, Len(s)))

\* the first such text, as a list of at most one part
FirstPart(df, c, lo, hi, minlen) == Take(ColParts(df, c, lo, hi, minlen), 1)

\* the parts if there are at least n of them
AtLeast(parts, n) == IF Len(parts) >= n THEN parts ELSE None

\* ';'.join(header_parts) + ';' + column_header if both were found
WithHeader(header_parts, column_header) ==
    IF header_parts # <<>> /\ column_header # <<>>
    THEN header_parts \o column_header ELSE None

extract_description_pattern1(df, col) ==
    AtLeast(ColParts(df, col, 1, Min(6, NRows(df)), 2), 3)

extract_description_pattern2(df, col) ==
    WithHeader(IF col > 1 THEN ColParts(df, 1, 1, Min(3, NRows(df)), 2) ELSE <<>>,
               FirstPart(df, col, 5, Min(7, NRows(df)), 1))

extract_description_pattern3(df, col) ==
    IF NCols(df) > 1
    THEN WithHeader(ColParts(df, 2, 1, Min(6, NRows(df)), 2),
                    FirstPart(df, col, 1, Min(6, NRows(df)), 1))
    ELSE None

HeaderKeywords == {"figure", "title", "source", "footnote"}
HeaderChars == {"#", "%", "(", ")"}

\* the texts of the first 8 rows of column c that are longer than 3 and
\* hold one of the header keywords
KeywordParts(df, c) ==
    LET IsPart(r) ==
            /\ IsStr(At(df, r, c))
            /\ StrLen(At(df, r, c)) > 3
            /\ \E kw \in HeaderKeywords : PartHas(CellWords(At(df, r, c)), kw)
        rows == SelectSeq([r \in 1..Min(8, NRows(df)) |-> r], IsPart)
    IN  List([i \in 1..Len(rows) |-> CellWords(At(df, rows[i], c))])

RECURSIVE Pattern4Cols(_, _, _)
Pattern4Cols(df, c, last) ==
    IF c > last THEN <<>>
    ELSE KeywordParts(df, c) \o Pattern4Cols(df, c + 1, last)

extract_description_pattern4(df, col) ==
    AtLeast(Pattern4Cols(df, 1, Min(col, NCols(df))), 2)

\* pattern 5 visits the cells of the first 8 rows and of the columns up to
\* col + 1, row by row: the i-th cell visited, as <<row, column>>
Pattern5Cells(df, col) ==
    List([i \in 1..(Min(8, NRows(df)) * Min(NCols(df), col + 1)) |->
            << ((i - 1) \div Min(NCols(df), col + 1)) + 1,
               ((i - 1) % Min(NCols(df), col + 1)) + 1 >>])

\* a string longer than 2
LongText(cell) == IsStr(cell) /\ StrLen(cell) > 2

\* any(char in clean_value for char in ['#', '%', '(', ')'])
HasHeaderChar(cell) == \E ch \in HeaderChars : PartHas(CellWords(cell), ch)

\* the cells appended to header_parts, in the order visited
HeaderCells(df, col) ==
    LET IsHeader(rc) ==
            /\ LongText(At(df, rc[1], rc[2]))
            /\ HasHeaderChar(At(df, rc[1], rc[2]))
            /\ rc[2] <= col
    IN  SelectSeq(Pattern5Cells(df, col), IsHeader)

\* the cells that could become measure_name, in the order visited; only
\* the first one does
MeasureCells(df, col) ==
    LET IsMeasure(rc) ==
            /\ LongText(At(df, rc[1], rc[2]))
            /\ ~HasHeaderChar(At(df, rc[1], rc[2]))
            /\ rc[2] = col
    IN  SelectSeq(Pattern5Cells(df, col), IsMeasure)

\* the texts of the cells
TextsAt(df, cells) ==
    List([i \in 1..Len(cells) |-> CellWords(At(df, cells[i][1], cells[i][2]))])

\* ';'.join(header_parts + [measure_name]) if anything was found
Pattern5Result(header_parts, measure_name) ==
    IF header_parts # <<>> \/ measure_name # <<>> THEN header_parts \o measure_name ELSE None

extract_description_pattern5(df, col) ==
    Pattern5Result(TextsAt(df, HeaderCells(df, col)), TextsAt(df, Take(MeasureCells(df, col), 1)))

\* the word list of str(n) and of a quoted sheet name
NumberWord(n) == Word(ToString(n), IF n < 10 THEN 1 ELSE 2, ToString(n), {})
QuotedWord(name) == Word("'" \o name \o "'", Len(name) + 2, name, {})

\* f"Data from sheet '{sheet_name}' column {col_idx + 1}"
FallbackDescription(name, col) ==
    << <<V("Data"), V("from"), V("sheet"), QuotedWord(name), V("column"), NumberWord(col)>> >>

\* the patterns that gave a description, and among them those with the
\* most parts
Found(ds) == {i \in 1..Len(ds) : ds[i] # None /\ Len(ds[i]) > 0}
Longest(ds) == {i \in Found(ds) : \A j \in Found(ds) : Len(ds[j]) <= Len(ds[i])}

\* the last of the longest descriptions
BestOfMutant(ds) == IF Found(ds) = {} THEN None ELSE ds[Last(Longest(ds))]

\* best_description: a later pattern replaces an earlier one only with
\* more parts, so the first of the longest descriptions stays
BestOf(ds) == IF Found(ds) = {} THEN None ELSE ds[First(Longest(ds))]

PatternOutputs(df, col) ==
    << extract_description_pattern1(df, col),
       extract_description_pattern2(df, col),
       extract_description_pattern3(df, col),
       extract_description_pattern4(df, col),
       extract_description_pattern5(df, col) >>

\* best_description, or the fallback if no pattern produced one
OrFallback(best, name, col) == IF best = None THEN FallbackDescription(name, col) ELSE best

extract_smart_description(df, col) ==
    OrFallback(BestOf(PatternOutputs(df, col)), df.name, col)

(* ------------------------------------------------------------------ *)
(* Code generation.  A code is the sequence of its '.'-separated       *)
(* tokens: "CBP.NZL.GDP.Q" is <<"CBP", "NZL", "GDP", "Q">>.            *)
(* ------------------------------------------------------------------ *)
RECURSIVE Keep(_, _)
Keep(ws, minlen) ==
    IF ws = <<>> THEN <<>>
    ELSE (IF Len(Head(ws).c) > minlen THEN <<Head(ws).c>> ELSE <<>>) \o Keep(Tail(ws), minlen)

\* the parts that are not blank after cleaning
RECURSIVE NonEmptyParts(_)
NonEmptyParts(desc) ==
    IF desc = <<>> THEN <<>>
    ELSE (IF Keep(Head(desc), 0) # <<>> THEN <<Head(desc)>> ELSE <<>>) \o NonEmptyParts(Tail(desc))

RECURSIVE CodeParts(_)
CodeParts(parts) ==
    IF parts = <<>> THEN <<>>
    ELSE Take(Keep(Head(parts), 2), 3) \o CodeParts(Tail(parts))

\* f"CBP.NZL.{code_body}.Q"
CodeOf(code_parts) ==
    <<"CBP", "NZL">>
    \o (IF code_parts # <<>> THEN Take(code_parts, 8) ELSE <<"UNKNOWN", "SERIES">>)
    \o <<"Q">>

\* the first 6 parts are taken before the blank ones are dropped
generate_codeMutant(description) == CodeOf(CodeParts(NonEmptyParts(Take(description, 6))))

generate_code(description) == CodeOf(CodeParts(Take(NonEmptyParts(description), 6)))

\* f"{base_code[:-2]}.{counter}.Q"
Suffixed(base_code, counter) ==
    SubSeq(base_code, 1, Len(base_code) - 1) \o <<ToString(counter), "Q">>

UniqueCodeMutant(code, base_code, counter, registry) ==
    IF code \in registry THEN Suffixed(base_code, counter) ELSE code

\* the loop that makes the code unique against the registry
RECURSIVE UniqueCode(_, _, _, _)
UniqueCode(code, base_code, counter, registry) ==
    IF code \in registry
    THEN UniqueCode(Suffixed(base_code, counter), base_code, counter + 1, registry)
    ELSE code

(* ------------------------------------------------------------------ *)
(* Metadata classification                                             *)
(* ------------------------------------------------------------------ *)
\* the index row is looked at before the percent row
determine_unit_infoMutant(description) ==
    IF \E kw \in {"index", "idx"} : DescHas(description, kw)
    THEN <<"LEVEL", "INDEX", "INDEX">>
    ELSE IF \E kw \in {"%", "percent", "percentage"} : DescHas(description, kw)
    THEN <<"LEVEL", "PERCENT", "PERCENT">>
    ELSE IF \E kw \in {"$", "dollar", "nzd", "millions", "currency"} : DescHas(description, kw)
    THEN <<"FLOW", "CURRENCY", "NZD">>
    ELSE <<"FLOW", "UNITS", "UNIT">>

determine_unit_info(description) ==
    IF \E kw \in {"%", "percent", "percentage"} : DescHas(description, kw)
    THEN <<"LEVEL", "PERCENT", "PERCENT">>
    ELSE IF \E kw \in {"index", "idx"} : DescHas(description, kw)
    THEN <<"LEVEL", "INDEX", "INDEX">>
    ELSE IF \E kw \in {"$", "dollar", "nzd", "millions", "currency"} : DescHas(description, kw)
    THEN <<"FLOW", "CURRENCY", "NZD">>
    ELSE <<"FLOW", "UNITS", "UNIT">>

determine_multiplierMutant(description) ==
    IF DescHas(description, "millions") THEN 6
    ELSE IF \E kw \in {"000s", "thousands"} : DescHas(description, kw) THEN 3
    ELSE 0

determine_multiplier(description) ==
    IF DescHas(description, "millions") THEN 9
    ELSE IF \E kw \in {"000s", "thousands"} : DescHas(description, kw) THEN 3
    ELSE 0

\* 'seasonally adjusted' / 'seasonal adjustment': two adjacent words of a cell
is_seasonally_adjusted(description) ==
    IF \E p \in 1..Len(description) : \E i \in 1..(Len(description[p]) - 1) :
          \/ "seasonally" \in description[p][i].k /\ "adjusted" \in description[p][i + 1].k
          \/ "seasonal" \in description[p][i].k /\ "adjustment" \in description[p][i + 1].k
    THEN "SA" ELSE "NSA"

(* ------------------------------------------------------------------ *)
(* Series extraction                                                   *)
(* ------------------------------------------------------------------ *)
\* the first date in the first DateCols columns of row r, the data column
\* itself excepted
RowDate(df, r, col) ==
    FirstSome(List([date_col \in 1..Min(DateCols, NCols(df)) |->
                      IF date_col = col THEN None ELSE DateAt(df, r, date_col)]))

\* the rows below are looked at before the row above
OffsetsMutant == <<0, 1, 2, -1>>

Offsets == <<-1, 0, 1, 2>>

\* the date of row check_row if the sheet has such a row
CheckRow(df, check_row, col) ==
    IF 1 <= check_row /\ check_row <= NRows(df) THEN RowDate(df, check_row, col) ELSE None

\* the date of the first nearby row that holds one, None if there is none
NearbyDate(df, r, col) ==
    FirstSome(List([i \in 1..Len(Offsets) |-> CheckRow(df, r + Offsets[i], col)]))

\* date_found for the numeric cell in row r of column col
FindDate(df, r, col) == FirstOf(RowDate(df, r, col), NearbyDate(df, r, col))

\* the rows of the column that hold a numeric value, in order
ValueRows(df, col) ==
    LET HasValue(r) == IsNumeric(At(df, r, col))
    IN  SelectSeq([r \in 1..NRows(df) |-> r], HasValue)

\* data_rows: (row_idx, date_found, numeric_val) for each of these rows
DataRows(df, col, rows) ==
    List([i \in 1..Len(rows) |->
            <<rows[i], FindDate(df, rows[i], col), At(df, rows[i], col).v>>])

\* the entries of data_rows resolved to period p
RowsOf(data_rows, p) == {i \in 1..Len(data_rows) : data_rows[i][2] = Some(p)}

\* each period holds the value of its first row
DatedMutant(data_rows) ==
    [p \in {data_rows[i][2][1] : i \in {j \in 1..Len(data_rows) : data_rows[j][2] # None}} |->
        data_rows[First(RowsOf(data_rows, p))][3]]

\* numeric_data after the scan: an assignment to a period that is already
\* there overwrites it, so each period holds the value of its last row
Dated(data_rows) ==
    [p \in {data_rows[i][2][1] : i \in {j \in 1..Len(data_rows) : data_rows[j][2] # None}} |->
        data_rows[Last(RowsOf(data_rows, p))][3]]

\* numeric_data (nd) and data_rows (rows) at the end of the scan
Scanned(data_rows) == [nd |-> Dated(data_rows), rows |-> data_rows]

ScanColumn(df, col) == Scanned(DataRows(df, col, ValueRows(df, col)))

\* the entries of data_rows mapped onto period p
SequentialMutantRows(data_rows, master_periods, p) ==
    {i \in 1..Min(Len(data_rows), Len(master_periods) - 1) : master_periods[i + 1] = p}

SequentialMutant(data_rows, master_periods) ==
    [p \in {master_periods[i + 1] : i \in 1..Min(Len(data_rows), Len(master_periods) - 1)} |->
        data_rows[Last(SequentialMutantRows(data_rows, master_periods, p))][3]]

\* the entries of data_rows mapped onto period p
SequentialRows(data_rows, master_periods, p) ==
    {i \in 1..Min(Len(data_rows), Len(master_periods)) : master_periods[i] = p}

\* the sequential mapping of the i-th data row onto master_periods[i]
Sequential(data_rows, master_periods) ==
    [p \in {master_periods[i] : i \in 1..Min(Len(data_rows), Len(master_periods))} |->
        data_rows[Last(SequentialRows(data_rows, master_periods, p))][3]]

\* the sequential mapping is made whenever a row has no period
FallbackMutant(acc, master_periods) ==
    IF (\E i \in 1..Len(acc.rows) : acc.rows[i][2] = None) /\ Len(acc.rows) >= MinPoints
    THEN Sequential(acc.rows, master_periods)
    ELSE acc.nd

\* numeric_data after the sequential mapping, where that applies
Fallback(acc, master_periods) ==
    IF DOMAIN acc.nd = {} /\ Len(acc.rows) >= MinPoints
    THEN Sequential(acc.rows, master_periods)
    ELSE acc.nd

\* numeric_data as it stands at the first length check
NumericData(df, col, master_periods) ==
    Fallback(ScanColumn(df, col), master_periods)

ProjectMutant(nd, master_periods) ==
    List([i \in 1..Len(master_periods) |->
            IF i > 1 /\ master_periods[i - 1] \in DOMAIN nd
            THEN Some(nd[master_periods[i - 1]]) ELSE None])

\* the values re-projected onto the master timeline
Project(nd, master_periods) ==
    List([i \in 1..Len(master_periods) |->
            IF master_periods[i] \in DOMAIN nd THEN Some(nd[master_periods[i]]) ELSE None])

\* the number of entries up to the last one that is not None
Filled(values) == Last({0} \cup {i \in 1..Len(values) : values[i] # None})

\* everything after the first MinPoints entries is removed
TrimTrailingMutant(values) == SubSeq(values, 1, Min(Len(values), MinPoints))

\* trailing None values removed while more than MinPoints entries remain
TrimTrailing(values) ==
    SubSeq(values, 1, Max(Filled(values), Min(Len(values), MinPoints)))

CountValues(values) == Cardinality({i \in 1..Len(values) : values[i] # None})

Codes(processed_codes) == {processed_codes[i] : i \in 1..Len(processed_codes)}

standard_metadata ==
    ("FREQUENCY" :> "Q") @@ ("AGGREGATION_TYPE" :> "UNDEFINED") @@
    ("ANNUALIZED" :> "FALSE") @@ ("STATE" :> "ACTIVE") @@
    ("PROVIDER" :> "AfricaAI") @@ ("SOURCE" :> "RBNZ") @@
    ("SOURCE_DESCRIPTION" :> "Reserve Bank of New Zealand") @@
    ("COUNTRY" :> "NZL") @@ ("DATASET" :> "CBP")

MetadataRecord(code, description, unit, multiplier, seasonally_adjusted) ==
    [CODE |-> code,
     CODE_MNEMONIC |-> SubSeq(code, 1, Len(code) - 1),
     DESCRIPTION |-> description,
     UNIT_TYPE |-> unit[1],
     DATA_TYPE |-> unit[2],
     DATA_UNIT |-> unit[3],
     SEASONALLY_ADJUSTED |-> seasonally_adjusted,
     MULTIPLIER |-> multiplier,
     STANDARD |-> standard_metadata]

Metadata(code, description) ==
    MetadataRecord(code, description, determine_unit_info(description),
                   determine_multiplier(description), is_seasonally_adjusted(description))

\* _extract_time_series_advanced: kept = FALSE is the return value None
NoSeries == [kept |-> FALSE]

TooFewMutant(n) == n < MinPoints - 1

\* the retention tests len(numeric_data) < 8 and len(actual_values) < 8
TooFew(n) == n < MinPoints

\* lines 619-623: the series returned
Series(code, description, numeric_values, master_periods) ==
    [kept |-> TRUE,
     code |-> code,
     values |-> numeric_values,
     metadata |-> Metadata(code, description),
     periods |-> SubSeq(master_periods, 1, Len(numeric_values))]

\* the metadata record is given the base code
IssueMutant(base_code, description, numeric_values, master_periods, processed_codes) ==
    [Series(UniqueCode(base_code, base_code, 1, Codes(processed_codes)),
            description, numeric_values, master_periods)
        EXCEPT !.metadata = Metadata(base_code, description)]

\* lines 588-598: the code made unique against the registry
Issue(base_code, description, numeric_values, master_periods, processed_codes) ==
    Series(UniqueCode(base_code, base_code, 1, Codes(processed_codes)),
           description, numeric_values, master_periods)

\* lines 585-586: the description and its code
Describe(description, numeric_values, master_periods, processed_codes) ==
    Issue(generate_code(description), description, numeric_values, master_periods,
          processed_codes)

\* lines 579-585: the second retention test
Trimmed(df, col, numeric_values, master_periods, processed_codes) ==
    IF TooFew(CountValues(numeric_values)) THEN NoSeries
    ELSE Describe(extract_smart_description(df, col), numeric_values, master_periods,
                  processed_codes)

\* lines 558-577: the first retention test, re-projection and trimming
Resolved(df, col, numeric_data, master_periods, processed_codes) ==
    IF TooFew(Cardinality(DOMAIN numeric_data)) THEN NoSeries
    ELSE Trimmed(df, col, TrimTrailing(Project(numeric_data, master_periods)),
                 master_periods, processed_codes)

extract_time_series_advanced(df, col, master_periods, processed_codes) ==
    IF NCols(df) < col THEN NoSeries
    ELSE Resolved(df, col, NumericData(df, col, master_periods), master_periods,
                  processed_codes)

(* ------------------------------------------------------------------ *)
(* Period pre-scan                                                     *)
(* ------------------------------------------------------------------ *)
\* only the first column of the sheet is scanned
SheetPeriodsMutant(df) ==
    IF ~df.ok THEN {}
    ELSE UNION { {DateAt(df, r, 1)[i] : i \in 1..Len(DateAt(df, r, 1))} : r \in 1..NRows(df) }

\* every column of the sheet is scanned
SheetPeriodsWide(df) ==
    IF ~df.ok THEN {}
    ELSE UNION { {DateAt(df, rc[1], rc[2])[i] : i \in 1..Len(DateAt(df, rc[1], rc[2]))} :
                    rc \in (1..NRows(df)) \X (1..NCols(df)) }

\* the labels found in the first DateCols columns of one sheet; a sheet
\* that cannot be read, or is empty, contributes nothing
SheetPeriods(df) ==
    IF ~df.ok THEN {}
    ELSE UNION { {DateAt(df, rc[1], rc[2])[i] : i \in 1..Len(DateAt(df, rc[1], rc[2]))} :
                    rc \in (1..NRows(df)) \X (1..Min(DateCols, NCols(df))) }

AllPeriods(book) == UNION { SheetPeriods(book[i]) : i \in 1..Len(book) }

DefaultRange == << <<1990, 1>>, <<2030, 4>>, <<>> >>

\* scan_for_date_range: <<earliest, latest, sorted_periods>>
\* lines 424-432: the range of the sorted labels, or the default
RangeOf(sorted_periods) ==
    IF sorted_periods # <<>>
    THEN <<sorted_periods[1], sorted_periods[Len(sorted_periods)], sorted_periods>>
    ELSE DefaultRange

scan_for_date_range(book, readable) ==
    IF ~readable THEN DefaultRange ELSE RangeOf(SortedLabels(AllPeriods(book)))

(* ------------------------------------------------------------------ *)
(* Output assembly                                                     *)
(* ------------------------------------------------------------------ *)
\* data_values padded with None up to the master timeline length
PadValues(values, n) == values \o [i \in 1..(n - Len(values)) |-> None]

PeriodKey == <<"PERIOD">>

\* a column of an output table: its first cell and the cells below it
Column(first, rest) == [first |-> first, rest |-> rest]

\* the metadata records whose CODE is code and has data
RecordsOf(meta, data, code) == {i \in 1..Len(meta) : meta[i].CODE = code /\ code \in DOMAIN data}

\* the column of a series: a later record with the same CODE replaces the
\* column of an earlier one
SeriesColumn(meta, data, master_periods, code) ==
    Column(meta[Last(RecordsOf(meta, data, code))].DESCRIPTION,
           PadValues(data[code], Len(master_periods)))

\* final_data / sheet_final_data: the PERIOD column and one column for
\* each metadata record whose CODE has data
BuildTable(meta, data, master_periods) ==
    [k \in {PeriodKey} \cup {meta[i].CODE : i \in {j \in 1..Len(meta) : meta[j].CODE \in DOMAIN data}} |->
        IF k = PeriodKey THEN Column(None, master_periods)
        ELSE SeriesColumn(meta, data, master_periods, k)]

\* pd.DataFrame(table) accepts the dictionary: all columns have one length
FrameOK(table) ==
    \A k1, k2 \in DOMAIN table : Len(table[k1].rest) = Len(table[k2].rest)

\* re.sub(r'[\\/*?[\]:]+', '_', str(sheet_name))[:31]; the sheet names of
\* the model contain none of these characters and are shorter than 31
CleanSheetName(name) == name

\* the sheet names that get a QA sheet
QANames(sheet_data) == { n \in DOMAIN sheet_data : DOMAIN sheet_data[n] # {} }

\* every QA sheet is given the table of one and the same sheet
QAWorkbookMutant(sheet_data, sheet_metadata, master_periods) ==
    [n \in { CleanSheetName(x) : x \in QANames(sheet_data) } |->
        LET src == CHOOSE x \in QANames(sheet_data) : TRUE
        IN  BuildTable(sheet_metadata[src], sheet_data[src], master_periods)]

\* the QA workbook: one table per sheet with data
QAWorkbook(sheet_data, sheet_metadata, master_periods) ==
    [n \in { CleanSheetName(x) : x \in QANames(sheet_data) } |->
        LET src == CHOOSE x \in QANames(sheet_data) : CleanSheetName(x) = n
        IN  BuildTable(sheet_metadata[src], sheet_data[src], master_periods)]

\* the in-place padding of create_final_output on the lists of all_data
PadAll(data, meta, master_periods) ==
    [c \in DOMAIN data |->
        IF \E i \in 1..Len(meta) : meta[i].CODE = c
        THEN PadValues(data[c], Len(master_periods)) ELSE data[c]]

(* ------------------------------------------------------------------ *)
(* Workbooks the run is offered                                        *)
(* ------------------------------------------------------------------ *)
Sheet(name, ok, ncols, rows) == [name |-> name, ok |-> ok, ncols |-> ncols, rows |-> rows]

\* quarter number i (0 is 2020-Q1) as <<year, first month>>
QYear(i) == 2020 + (i \div 4)
QMonth(i) == 3 * (i % 4) + 1

DMY(i) == DStr("/", Fld(1, 2), Fld(QMonth(i), 2), Fld(QYear(i), 4))
ISO(i) == DStr("-", Fld(QYear(i), 4), Fld(QMonth(i), 2), Fld(1, 2))
MDY(i) == DStr("/", Fld(QMonth(i), 2), Fld(15, 2), Fld(QYear(i), 4))
OldDate == DStr("/", Fld(1, 2), Fld(1, 2), Fld(999, 4))
\* 43831 is 2020-01-01; 92 days on is in the next quarter for the first 12
SerialCell(i) == Num(43831 + 92 * i)

HeaderCell(r) ==
    IF r = 1 THEN Text(<<"(GDP)">>)
    ELSE IF r = 2 THEN Text(<<"(RBNZ)">>)
    ELSE IF r = 3 THEN Text(<<"(Millions)">>)
    ELSE Empty

PlainHeader(r) ==
    IF r = 1 THEN Text(<<"GDP">>)
    ELSE IF r = 2 THEN Text(<<"RBNZ">>)
    ELSE IF r = 3 THEN Text(<<"Millions">>)
    ELSE Empty

\* rows 1..k: each quarter twice, in two formats; 8 numeric values
DupSheet(name, k) ==
    Sheet(name, TRUE, 3,
      [r \in 1..k |-> << IF r % 2 = 1 THEN DMY((r - 1) \div 2) ELSE ISO((r - 1) \div 2),
                         HeaderCell(r), Num(r) >>])

\* rows 1..k: k distinct quarters in mixed formats; two value columns
DistinctSheet(name, k) ==
    Sheet(name, TRUE, 4,
      [r \in 1..k |-> << IF r % 3 = 1 THEN DMY(r - 1) ELSE IF r % 3 = 2 THEN ISO(r - 1) ELSE MDY(r - 1),
                         HeaderCell(r), Num(r), Num(100 + r) >>])

\* k distinct quarters; value columns with MinPoints - 1 values, with a
\* gap in row 2, and with MinPoints values
MixSheet(name, k) ==
    Sheet(name, TRUE, 5,
      [r \in 1..k |-> << DMY(r - 1), HeaderCell(r),
                         IF r < MinPoints THEN Num(r) ELSE Empty,
                         IF r # 2 THEN Num(100 + r) ELSE Empty,
                         IF r <= MinPoints THEN Num(200 + r) ELSE Empty >>])

\* as DistinctSheet, the first date lying in the year 999
OldSheet(name, k) ==
    Sheet(name, TRUE, 3,
      [r \in 1..k |-> << IF r = 1 THEN OldDate ELSE ISO(r - 1), HeaderCell(r), Num(r) >>])

\* three header rows, then serial dates in column A and values in column C
SerialSheet(name, k) ==
    Sheet(name, TRUE, 3,
      [r \in 1..(k + 3) |->
         IF r <= 3 THEN << PlainHeader(r), Empty, IF r = 3 THEN Text(<<"CPI", "Index">>) ELSE Empty >>
         ELSE << SerialCell(r - 4), Empty, Num(r - 3) >>])

\* three header rows, then native dates two quarters later than the others
NativeSheet(name, k) ==
    Sheet(name, TRUE, 3,
      [r \in 1..(k + 3) |->
         IF r <= 3 THEN << Empty, Empty, PlainHeader(r) >>
         ELSE << Native(QYear(r - 2), QMonth(r - 2)), Empty, Num(r - 3) >>])

\* no date at all: k + 1 numeric values in column A
ValuesSheet(name, k) ==
    Sheet(name, TRUE, 2, [r \in 1..(k + 1) |-> << Num(300 + r), Empty >>])

EmptySheet(name) == Sheet(name, TRUE, 0, <<>>)

\* a sheet pd.read_excel raises on
BadSheet(name, k) == [DistinctSheet(name, k) EXCEPT !.ok = FALSE]

\* the kinds of sheet a workbook is made of
SheetPool(name, k) ==
    << BadSheet(name, k), EmptySheet(name), DupSheet(name, k), OldSheet(name, k),
       ValuesSheet(name, k), MixSheet(name, k), SerialSheet(name, k),
       NativeSheet(name, k), DistinctSheet(name, k) >>

SheetNames == <<"A", "B", "C", "D">>

RowCounts == {MinPoints, MinPoints + MaxExtraRows}

\* the i-th smallest element of a set of numbers
Nth(S, i) == CHOOSE x \in S : Cardinality({y \in S : y < x}) = i - 1

\* the workbook whose sheets are the kinds S, in the order of the pool
Book(S, k) == List([i \in 1..Cardinality(S) |-> SheetPool(SheetNames[i], k)[Nth(S, i)]])

\* workbooks of 1..MaxSheets sheets of different kinds
Workbooks ==
    { Book(S, k) :
        S \in {T \in SUBSET (1..Len(SheetPool("A", MinPoints))) : Cardinality(T) \in 1..MaxSheets},
        k \in RowCounts }

\* k dates, by turns in columns A and C, each in a row of its own, and
\* below each of them a row with a value in column B and one in column D
GapSheet(name, k) ==
    Sheet(name, TRUE, 4,
      [r \in 1..(2 * k) |->
         IF r % 2 = 1
         THEN << IF r % 4 = 1 THEN DMY((r - 1) \div 2) ELSE Empty,
                 IF r = 1 THEN Text(<<"GDP">>) ELSE Empty,
                 IF r % 4 = 3 THEN ISO((r - 1) \div 2) ELSE Empty,
                 Empty >>
         ELSE << Empty, Num(r \div 2), Empty, Num(100 + (r \div 2)) >>])

\* the kinds of sheet whose values have no date in their own row
GapPool(name, k) == << GapSheet(name, k), ValuesSheet(name, k), DistinctSheet(name, k) >>

\* workbooks of 1..MaxSheets sheets of different kinds of GapPool, in any
\* order
GapBooks ==
    { List([i \in 1..Len(kinds) |-> GapPool(SheetNames[i], k)[kinds[i]]]) :
        kinds \in UNION {{f \in [1..n -> 1..3] : \A i, j \in 1..n : i # j => f[i] # f[j]} :
                           n \in 1..Min(MaxSheets, 3)},
        k \in RowCounts }

\* k + 2 dated rows of which the first three lie in one quarter; a value
\* in every row of column C and in the first MinPoints rows of column D
RepeatSheet(name, k) ==
    Sheet(name, TRUE, 4,
      [r \in 1..(k + 2) |->
         << IF r = 2 THEN ISO(0) ELSE DMY(Max(0, r - 3)),
            HeaderCell(r),
            Num(r),
            IF r <= MinPoints THEN Num(100 + r) ELSE Empty >>])

\* k dated rows with a value in column C and, but for the first of them,
\* in column D; above and below them, with rows of nothing in between, a
\* row with a value in both columns and no date
PartSheet(name, k) ==
    Sheet(name, TRUE, 4,
      [r \in 1..(k + 5) |->
         IF r = 1 THEN << Empty, Text(<<"GDP">>), Num(r), Num(100 + r) >>
         ELSE IF r = k + 5 THEN << Empty, Empty, Num(r), Num(100 + r) >>
         ELSE IF r \in {2, 3, k + 4} THEN << Empty, Empty, Empty, Empty >>
         ELSE << DMY(r - 4), Empty, Num(r), IF r = 4 THEN Empty ELSE Num(100 + r) >>])

\* the kinds of sheet whose numeric rows are not one to a quarter
RowPool(name, k) == << RepeatSheet(name, k), PartSheet(name, k), ValuesSheet(name, k) >>

\* workbooks of 1..MaxSheets sheets of different kinds of RowPool, in any
\* order
RowBooks ==
    { List([i \in 1..Len(kinds) |-> RowPool(SheetNames[i], k)[kinds[i]]]) :
        kinds \in UNION {{f \in [1..n -> 1..3] : \A i, j \in 1..n : i # j => f[i] # f[j]} :
                           n \in 1..Min(MaxSheets, 3)},
        k \in RowCounts }

(* ------------------------------------------------------------------ *)
(* State of one run                                                    *)
(* ------------------------------------------------------------------ *)
VARIABLES
    wb,               \* the workbook in the downloads directory (input)
    readable,         \* pd.ExcelFile can open it (input)
    pc,               \* position of the run
    master_periods,   \* the master timeline of process_excel_file
    sheet_idx,        \* position of the sheet loop
    col_idx,          \* position of the column loop
    all_data,         \* code -> values
    all_metadata,     \* list of metadata records
    sheet_data,       \* sheet name -> (code -> values)
    sheet_metadata,   \* sheet name -> list of metadata records
    processed_codes,  \* self._processed_codes
    qa_path,          \* return value of create_qa_output
    qa_book,          \* the sheets written to the QA workbook
    final_data,       \* the data table handed to pd.DataFrame
    meta_table,       \* the metadata table
    files,            \* artifacts present in the output directory
    result,           \* what run hands to its caller
    faults,           \* exceptions injected so far
    trace,            \* what became of each column and sheet visited
    earlier,          \* the codes issued by each earlier run of this mapper
    probe             \* a function under examination, its input and its output

vars == <<wb, readable, pc, master_periods, sheet_idx, col_idx, all_data,
          all_metadata, sheet_data, sheet_metadata, processed_codes, qa_path,
          qa_book, final_data, meta_table, files, result, faults, trace,
          earlier, probe>>

inputs == <<wb, readable, earlier, probe>>
tables == <<all_data, all_metadata, sheet_data, sheet_metadata, processed_codes>>
outputs == <<qa_path, qa_book, final_data, meta_table, files>>

NoTable == [k \in {} |-> 0]

Init ==
    /\ wb \in Workbooks
    /\ readable \in BOOLEAN
    /\ pc = "start"
    /\ master_periods = <<>>
    /\ sheet_idx = 0
    /\ col_idx = 0
    /\ all_data = NoTable
    /\ all_metadata = <<>>
    /\ sheet_data = NoTable
    /\ sheet_metadata = NoTable
    /\ processed_codes = <<>>
    /\ qa_path = None
    /\ qa_book = NoTable
    /\ final_data = NoTable
    /\ meta_table = <<>>
    /\ files = {}
    /\ result = "running"
    /\ faults = 0
    /\ trace = <<>>
    /\ earlier = <<>>
    /\ probe = None

\* run returns (qa, final)
Return(qa, final) == [qa |-> qa, final |-> final]

\* the exception leaves run instead
RunHandlerMutant == [raised |-> "Exception"]

\* what run does with an exception that reaches its own handler
RunHandler == Return(None, None)

\* run, lines 758-773: a file is found and selected
FindFiles ==
    /\ pc = "start"
    /\ pc' = "scan"
    /\ UNCHANGED <<inputs, master_periods, sheet_idx, col_idx, tables, outputs,
                   result, faults, trace>>

\* run, lines 762-771 and 799-801: no file, or file discovery raises
NoFiles ==
    /\ pc = "start"
    /\ \E raised \in BOOLEAN :
          /\ raised => faults < MaxFaults
          /\ faults' = IF raised THEN faults + 1 ELSE faults
          /\ result' = IF raised THEN RunHandler ELSE Return(None, None)
    /\ pc' = "done"
    /\ UNCHANGED <<inputs, master_periods, sheet_idx, col_idx, tables, outputs, trace>>

\* process_excel_file, line 447
ScanDates ==
    /\ pc = "scan"
    /\ master_periods' = scan_for_date_range(wb, readable)[3]
    /\ pc' = "open"
    /\ UNCHANGED <<inputs, sheet_idx, col_idx, tables, outputs, result, faults, trace>>

\* process_excel_file, lines 449-453
OpenWorkbook ==
    /\ pc = "open"
    /\ readable
    /\ all_data' = NoTable
    /\ all_metadata' = <<>>
    /\ sheet_data' = NoTable
    /\ sheet_metadata' = NoTable
    /\ sheet_idx' = 1
    /\ pc' = "sheet"
    /\ UNCHANGED <<inputs, master_periods, col_idx, processed_codes, outputs,
                   result, faults, trace>>

\* process_excel_file, lines 485-487, and run, lines 778-780
OpenFails ==
    /\ pc = "open"
    /\ ~readable
    /\ master_periods' = <<>>
    /\ result' = Return(None, None)
    /\ pc' = "done"
    /\ UNCHANGED <<inputs, sheet_idx, col_idx, tables, outputs, faults, trace>>

Register(table, name, value) ==
    [n \in DOMAIN table \cup {name} |-> IF n = name THEN value ELSE table[n]]

\* process_excel_file, lines 456-465 and 478-480: the next sheet is entered
BeginSheet ==
    /\ pc = "sheet"
    /\ sheet_idx <= Len(wb)
    /\ LET df == wb[sheet_idx]
       IN  /\ sheet_data' = Register(sheet_data, df.name, NoTable)
           /\ sheet_metadata' = Register(sheet_metadata, df.name, <<>>)
           /\ IF ~df.ok THEN
                 /\ trace' = Append(trace, [sheet |-> sheet_idx, col |-> 0, out |-> "unreadable"])
                 /\ sheet_idx' = sheet_idx + 1
                 /\ UNCHANGED <<pc, col_idx>>
              ELSE IF NRows(df) = 0 \/ NCols(df) = 0 THEN
                 /\ trace' = Append(trace, [sheet |-> sheet_idx, col |-> 0, out |-> "empty"])
                 /\ sheet_idx' = sheet_idx + 1
                 /\ UNCHANGED <<pc, col_idx>>
              ELSE
                 /\ col_idx' = 1
                 /\ pc' = "col"
                 /\ UNCHANGED <<sheet_idx, trace>>
    /\ UNCHANGED <<inputs, master_periods, all_data, all_metadata, processed_codes,
                   outputs, result, faults>>

\* process_excel_file, lines 467-476: one column of the current sheet
ProcessColumn ==
    /\ pc = "col"
    /\ col_idx <= NCols(wb[sheet_idx])
    /\ \E series_data \in {extract_time_series_advanced(wb[sheet_idx], col_idx,
                                                         master_periods, processed_codes)} :
           LET df == wb[sheet_idx]
           IN
           IF series_data.kept THEN
              /\ processed_codes' = Append(processed_codes, series_data.code)
              /\ all_data' = Register(all_data, series_data.code, series_data.values)
              /\ all_metadata' = Append(all_metadata, series_data.metadata)
              /\ sheet_data' = [sheet_data EXCEPT ![df.name] =
                                   Register(@, series_data.code, series_data.values)]
              /\ sheet_metadata' = [sheet_metadata EXCEPT ![df.name] =
                                       Append(@, series_data.metadata)]
              /\ trace' = Append(trace, [sheet |-> sheet_idx, col |-> col_idx, out |-> "kept",
                                         code |-> series_data.code])
           ELSE
              /\ trace' = Append(trace, [sheet |-> sheet_idx, col |-> col_idx, out |-> "none"])
              /\ UNCHANGED tables
    /\ col_idx' = col_idx + 1
    /\ UNCHANGED <<inputs, pc, master_periods, sheet_idx, outputs, result, faults>>

ColumnRaisesMutant ==
    /\ pc = "col"
    /\ col_idx <= NCols(wb[sheet_idx])
    /\ faults < MaxFaults
    /\ faults' = faults + 1
    /\ trace' = Append(trace, [sheet |-> sheet_idx, col |-> col_idx, out |-> "raised"])
    /\ sheet_idx' = sheet_idx + 1
    /\ pc' = "sheet"
    /\ UNCHANGED <<inputs, master_periods, col_idx, tables, outputs, result>>

\* _extract_time_series_advanced, lines 625-627: the extraction raises
ColumnRaises ==
    /\ pc = "col"
    /\ col_idx <= NCols(wb[sheet_idx])
    /\ faults < MaxFaults
    /\ faults' = faults + 1
    /\ trace' = Append(trace, [sheet |-> sheet_idx, col |-> col_idx, out |-> "raised"])
    /\ col_idx' = col_idx + 1
    /\ UNCHANGED <<inputs, pc, master_periods, sheet_idx, tables, outputs, result>>

\* process_excel_file, lines 478-480: the column loop raises
SheetRaises ==
    /\ pc = "col"
    /\ col_idx <= NCols(wb[sheet_idx])
    /\ faults < MaxFaults
    /\ faults' = faults + 1
    /\ trace' = Append(trace, [sheet |-> sheet_idx, col |-> 0, out |-> "raised"])
    /\ sheet_idx' = sheet_idx + 1
    /\ pc' = "sheet"
    /\ UNCHANGED <<inputs, master_periods, col_idx, tables, outputs, result>>

\* process_excel_file, line 467: the column loop is exhausted
EndSheet ==
    /\ pc = "col"
    /\ col_idx > NCols(wb[sheet_idx])
    /\ sheet_idx' = sheet_idx + 1
    /\ pc' = "sheet"
    /\ UNCHANGED <<inputs, master_periods, col_idx, tables, outputs, result, faults, trace>>

EndSheetsMutant ==
    /\ pc = "sheet"
    /\ sheet_idx > Len(wb)
    /\ pc' = "qa"
    /\ UNCHANGED <<inputs, master_periods, sheet_idx, col_idx, tables, outputs, result,
                   faults, trace>>

\* process_excel_file, lines 482-483, and run, lines 776-782
EndSheets ==
    /\ pc = "sheet"
    /\ sheet_idx > Len(wb)
    /\ IF DOMAIN all_data = {}
       THEN /\ result' = Return(None, None)
            /\ pc' = "done"
       ELSE /\ pc' = "qa"
            /\ UNCHANGED result
    /\ UNCHANGED <<inputs, master_periods, sheet_idx, col_idx, tables, outputs, faults, trace>>

\* create_qa_output, lines 636-680
CreateQA ==
    /\ pc = "qa"
    /\ \E book \in {QAWorkbook(sheet_data, sheet_metadata, master_periods)} :
           IF DOMAIN book # {} /\ \A n \in DOMAIN book : FrameOK(book[n])
           THEN /\ qa_book' = book
                /\ qa_path' = Some("CBP_QA_OUTPUT")
                /\ files' = files \cup {"CBP_QA_OUTPUT"}
           ELSE \* a frame is refused, or the writer has no sheet to save
                /\ qa_path' = None
                /\ \E left \in BOOLEAN :
                      files' = IF left THEN files \cup {"CBP_QA_OUTPUT"} ELSE files
                /\ UNCHANGED qa_book
    /\ pc' = "final"
    /\ UNCHANGED <<inputs, master_periods, sheet_idx, col_idx, tables, final_data,
                   meta_table, result, faults, trace>>

\* create_qa_output, lines 682-684: writing the QA workbook raises
QARaises ==
    /\ pc = "qa"
    /\ faults < MaxFaults
    /\ faults' = faults + 1
    /\ qa_path' = None
    /\ \E left \in BOOLEAN : files' = IF left THEN files \cup {"CBP_QA_OUTPUT"} ELSE files
    /\ pc' = "final"
    /\ UNCHANGED <<inputs, master_periods, sheet_idx, col_idx, tables, qa_book,
                   final_data, meta_table, result, trace>>

\* create_final_output, lines 692-746, and run, lines 790-797
CreateFinal ==
    /\ pc = "final"
    /\ IF DOMAIN all_data = {} \/ all_metadata = <<>>
       THEN /\ result' = Return(qa_path, None)
            /\ UNCHANGED <<all_data, sheet_data, final_data, meta_table, files>>
       ELSE \E table \in {BuildTable(all_metadata, all_data, master_periods)},
               padded \in {PadAll(all_data, all_metadata, master_periods)} :
                /\ all_data' = padded
                /\ sheet_data' = [n \in DOMAIN sheet_data |->
                                    [c \in DOMAIN sheet_data[n] |-> padded[c]]]
                /\ IF FrameOK(table)
                   THEN /\ final_data' = table
                        /\ meta_table' = all_metadata
                        /\ files' = files \cup {"CBP_DATA", "CBP_META", "CBP_ZIP"}
                        /\ result' = Return(qa_path, Some("CBP_ZIP"))
                   ELSE /\ result' = Return(qa_path, None)
                        /\ UNCHANGED <<final_data, meta_table, files>>
    /\ pc' = "done"
    /\ UNCHANGED <<inputs, master_periods, sheet_idx, col_idx, all_metadata,
                   sheet_metadata, processed_codes, qa_path, qa_book, faults, trace>>

\* create_final_output, lines 748-750: writing one of the three files raises
FinalRaises ==
    /\ pc = "final"
    /\ DOMAIN all_data # {} /\ all_metadata # <<>>
    /\ faults < MaxFaults
    /\ faults' = faults + 1
    /\ \E stage \in {"data", "meta", "zip"} :
          files' = files \cup (IF stage = "data" THEN {}
                               ELSE IF stage = "meta" THEN {"CBP_DATA"}
                               ELSE {"CBP_DATA", "CBP_META"})
    /\ result' = Return(qa_path, None)
    /\ pc' = "done"
    /\ UNCHANGED <<inputs, master_periods, sheet_idx, col_idx, tables, qa_path, qa_book,
                   final_data, meta_table, trace>>

Next ==
    \/ FindFiles
    \/ NoFiles
    \/ ScanDates
    \/ OpenWorkbook
    \/ OpenFails
    \/ BeginSheet
    \/ ProcessColumn
    \/ ColumnRaises
    \/ SheetRaises
    \/ EndSheet
    \/ EndSheets
    \/ CreateQA
    \/ QARaises
    \/ CreateFinal
    \/ FinalRaises

Spec == Init /\ [][Next]_vars

\* a run over a workbook of GapBooks
GapInit ==
    /\ wb \in GapBooks
    /\ readable \in BOOLEAN
    /\ pc = "start"
    /\ master_periods = <<>>
    /\ sheet_idx = 0
    /\ col_idx = 0
    /\ all_data = NoTable
    /\ all_metadata = <<>>
    /\ sheet_data = NoTable
    /\ sheet_metadata = NoTable
    /\ processed_codes = <<>>
    /\ qa_path = None
    /\ qa_book = NoTable
    /\ final_data = NoTable
    /\ meta_table = <<>>
    /\ files = {}
    /\ result = "running"
    /\ faults = 0
    /\ trace = <<>>
    /\ earlier = <<>>
    /\ probe = None

Gaps == GapInit /\ [][Next]_vars

\* a run over a workbook of RowBooks
RowInit ==
    /\ wb \in RowBooks
    /\ readable \in BOOLEAN
    /\ pc = "start"
    /\ master_periods = <<>>
    /\ sheet_idx = 0
    /\ col_idx = 0
    /\ all_data = NoTable
    /\ all_metadata = <<>>
    /\ sheet_data = NoTable
    /\ sheet_metadata = NoTable
    /\ processed_codes = <<>>
    /\ qa_path = None
    /\ qa_book = NoTable
    /\ final_data = NoTable
    /\ meta_table = <<>>
    /\ files = {}
    /\ result = "running"
    /\ faults = 0
    /\ trace = <<>>
    /\ earlier = <<>>
    /\ probe = None

Rows == RowInit /\ [][Next]_vars

\* the CODEs of a list of metadata records, in order
IssuedCodes(meta) == List([i \in 1..Len(meta) |-> meta[i].CODE])

\* run is called once more on the same mapper: its locals start afresh,
\* the attributes of the mapper and the output directory stay
RunAgain ==
    /\ pc = "done"
    /\ Len(earlier) < MaxRuns - 1
    /\ earlier' = Append(earlier, IssuedCodes(all_metadata))
    /\ pc' = "start"
    /\ master_periods' = <<>>
    /\ sheet_idx' = 0
    /\ col_idx' = 0
    /\ all_data' = NoTable
    /\ all_metadata' = <<>>
    /\ sheet_data' = NoTable
    /\ sheet_metadata' = NoTable
    /\ qa_path' = None
    /\ qa_book' = NoTable
    /\ final_data' = NoTable
    /\ meta_table' = <<>>
    /\ result' = "running"
    /\ trace' = <<>>
    /\ UNCHANGED <<wb, readable, processed_codes, files, faults, probe>>

RunsNext == Next \/ RunAgain

\* the runs of one mapper, one after the other
Runs == Init /\ [][RunsNext]_vars

(* ------------------------------------------------------------------ *)
(* Properties                                                          *)
(* ------------------------------------------------------------------ *)
TraceIdx == 1..Len(trace)
Kept == {i \in TraceIdx : trace[i].out = "kept"}
SeriesKeys(table) == DOMAIN table \ {PeriodKey}

\* C1: every retained series sits in the final data table and in the QA
\* sheet of its source sheet with exactly len(master_periods) values, at
\* least 8 of them non-null.
C1_OutputShape ==
    /\ final_data # NoTable =>
          \A i \in 1..Len(all_metadata) :
             /\ all_metadata[i].CODE \in SeriesKeys(final_data)
             /\ Len(final_data[all_metadata[i].CODE].rest) = Len(master_periods)
             /\ CountValues(final_data[all_metadata[i].CODE].rest) >= MinPoints
    /\ qa_book # NoTable =>
          \A n \in DOMAIN sheet_metadata : \A i \in 1..Len(sheet_metadata[n]) :
             /\ n \in DOMAIN qa_book
             /\ sheet_metadata[n][i].CODE \in SeriesKeys(qa_book[n])
             /\ Len(qa_book[n][sheet_metadata[n][i].CODE].rest) = Len(master_periods)
             /\ CountValues(qa_book[n][sheet_metadata[n][i].CODE].rest) >= MinPoints

\* a final table holds a series that was trimmed to MinPoints entries and
\* padded back to a longer timeline
C1_Witness ==
    /\ pc = "done"
    /\ Len(master_periods) > MinPoints
    /\ \E c \in SeriesKeys(final_data) :
          /\ final_data[c].rest[Len(master_periods)] = None
          /\ CountValues(final_data[c].rest) = MinPoints
    /\ \E n \in DOMAIN qa_book : \E c \in SeriesKeys(qa_book[n]) :
          qa_book[n][c].rest[Len(master_periods)] = None

\* C2: no two metadata records of a run carry the same CODE, and no series
\* overwrites another in the code-keyed data table.
C2_UniqueCodes ==
    /\ \A i, j \in 1..Len(all_metadata) :
          i # j => all_metadata[i].CODE # all_metadata[j].CODE
    /\ Cardinality(DOMAIN all_data) = Len(all_metadata)
    /\ \A i \in Kept : trace[i].code \in DOMAIN all_data

\* three series with one and the same description have been retained
C2_Witness ==
    \E i, j, k \in 1..Len(all_metadata) :
       /\ i < j /\ j < k
       /\ all_metadata[i].DESCRIPTION = all_metadata[j].DESCRIPTION
       /\ all_metadata[j].DESCRIPTION = all_metadata[k].DESCRIPTION

\* C3: the master timeline is strictly ascending in chronological order
\* and holds no label twice.
C3_Chronological ==
    \A i, j \in 1..Len(master_periods) :
       i < j => Earlier(master_periods[i], master_periods[j])

\* C4: a column with fewer than 8 resolved (period, value) pairs leaves the
\* registry, the global tables and the per-sheet tables as they are.
C4_ShortColumnDiscarded ==
    [][ ( /\ pc = "col"
          /\ col_idx <= NCols(wb[sheet_idx])
          /\ Cardinality(DOMAIN NumericData(wb[sheet_idx], col_idx, master_periods)) < MinPoints )
        => ( /\ processed_codes' = processed_codes
             /\ all_data' = all_data
             /\ all_metadata' = all_metadata
             /\ sheet_data' = sheet_data
             /\ sheet_metadata' = sheet_metadata ) ]_vars

\* a column with exactly 7 resolved pairs has been processed
C4_Witness ==
    \E i \in TraceIdx :
       /\ trace[i].out = "none"
       /\ trace[i].col > 0
       /\ Cardinality(DOMAIN NumericData(wb[trace[i].sheet], trace[i].col, master_periods))
             = MinPoints - 1

\* the values of the numeric cells of a column, in row order
NumericRows(df, col) ==
    List([i \in 1..Len(ValueRows(df, col)) |-> At(df, ValueRows(df, col)[i], col).v])

\* row r is a numeric row of the column or lies next to one, one row
\* above it or up to two rows below it
NearValue(df, r, col) ==
    \E n \in (r - 2)..(r + 1) : n >= 1 /\ n <= NRows(df) /\ IsNumeric(At(df, n, col))

\* no numeric row of the column resolves to a period: no row at or next to
\* a numeric row holds a date in another of the date columns
Undated(df, col) ==
    \A r \in 1..NRows(df) : NearValue(df, r, col) => RowDate(df, r, col) = None

\* C5: a retained column without any resolved period holds its i-th
\* numeric value at master_periods[i], for every i up to the timeline
\* length, and nothing anywhere else.
C5_PositionalFallback ==
    \A t \in Kept :
       LET df == wb[trace[t].sheet]
           vals == NumericRows(df, trace[t].col)
           series == all_data[trace[t].code]
       IN  Undated(df, trace[t].col) =>
              /\ Len(vals) >= MinPoints
              /\ Len(series) >= Min(Len(vals), Len(master_periods))
              /\ \A i \in 1..Len(series) :
                    series[i] = IF i <= Len(vals) THEN Some(vals[i]) ELSE None

\* 10 undated numeric values were placed on a timeline of 10 or more labels
C5_Witness ==
    \E t \in Kept :
       /\ Undated(wb[trace[t].sheet], trace[t].col)
       /\ Len(NumericRows(wb[trace[t].sheet], trace[t].col)) = 10
       /\ Len(master_periods) >= 10
       /\ CountValues(all_data[trace[t].code]) = 10

\* the metadata record issued for a code
MetaOf(code) == all_metadata[CHOOSE i \in 1..Len(all_metadata) : all_metadata[i].CODE = code]

\* the columns of index 2 that either were retained or were discarded
\* without an exception, in the sheets of 8 rows of the given kind
Settled(Kind(_, _)) ==
    {t \in TraceIdx : /\ trace[t].col = 3
                      /\ trace[t].out \in {"kept", "none"}
                      /\ wb[trace[t].sheet] = Kind(SheetNames[trace[t].sheet], MinPoints)}

\* the series of trace entry t carries the tokens, the metadata and the 8
\* values of the scenario
AsExpected(t) ==
    /\ trace[t].out = "kept"
    /\ \A tok \in {"GDP", "RBNZ", "MILLIONS"} :
          \E i \in 1..Len(trace[t].code) : trace[t].code[i] = tok
    /\ MetaOf(trace[t].code).MULTIPLIER = 9
    /\ MetaOf(trace[t].code).DATA_TYPE = "CURRENCY"
    /\ MetaOf(trace[t].code).DATA_UNIT = "NZD"
    /\ CountValues(all_data[trace[t].code]) = 8

C7_FinalTable ==
    final_data # NoTable =>
       /\ final_data[PeriodKey] = Column(None, master_periods)
       /\ SeriesKeys(final_data) = {all_metadata[i].CODE : i \in 1..Len(all_metadata)}
       /\ \A t \in Kept :
             \A nd \in {NumericData(wb[trace[t].sheet], trace[t].col, master_periods)} :
                /\ final_data[trace[t].code].first = MetaOf(trace[t].code).DESCRIPTION
                /\ Len(final_data[trace[t].code].rest) = Len(master_periods)
                /\ \A j \in 1..Len(master_periods) :
                      final_data[trace[t].code].rest[j] =
                         IF master_periods[j] \in DOMAIN nd
                         THEN Some(nd[master_periods[j]]) ELSE None

\* a table of two or more series, one of which has a gap inside
C7_Witness ==
    /\ final_data # NoTable
    /\ Cardinality(SeriesKeys(final_data)) >= 2
    /\ \E c \in SeriesKeys(final_data) : \E j, k \in 1..Len(master_periods) :
          /\ j < k
          /\ final_data[c].rest[j] = None
          /\ final_data[c].rest[k] # None

\* C8: when the workbook cannot be read, or no series has been extracted,
\* no artifact exists and run returns (None, None).
C8_RunFailure ==
    (~readable \/ DOMAIN all_data = {}) =>
       /\ files = {}
       /\ qa_book = NoTable
       /\ final_data = NoTable
       /\ pc = "done" => result = Return(None, None)

\* a readable workbook all of whose columns were discarded
C8_Witness ==
    /\ pc = "done"
    /\ readable
    /\ \E t \in TraceIdx : trace[t].out = "none"
    /\ \A t \in TraceIdx : trace[t].out # "kept"
    /\ result = Return(None, None)

\* how far the run has come
Stage(p) ==
    CASE p = "start" -> 0
      [] p = "scan" -> 1
      [] p = "open" -> 2
      [] p \in {"sheet", "col"} -> 3
      [] p = "qa" -> 4
      [] p = "final" -> 5
      [] p = "done" -> 6

\* a step takes the run to a later stage, to a later sheet, into the
\* columns of the sheet, or to a later column
Advances ==
    \/ Stage(pc') > Stage(pc)
    \/ /\ Stage(pc') = Stage(pc)
       /\ \/ sheet_idx' > sheet_idx
          \/ sheet_idx' = sheet_idx /\ pc = "sheet" /\ pc' = "col"
          \/ sheet_idx' = sheet_idx /\ pc = "col" /\ pc' = "col" /\ col_idx' > col_idx

\* C9: whatever failed, run ends in a pair of a path or None each and in
\* nothing else; it has handed over nothing before it has ended, and every
\* step takes it further in its finitely many stages, sheets and columns.
C9_ReturnsPair ==
    /\ [](pc = "done" =>
             result \in [qa : {None, Some("CBP_QA_OUTPUT")}, final : {None, Some("CBP_ZIP")}])
    /\ [](pc # "done" => result = "running")
    /\ [](sheet_idx <= Len(wb) + 1 /\ (pc = "col" => col_idx <= NCols(wb[sheet_idx]) + 1))
    /\ [][Advances]_vars

\* run has returned after an exception in file discovery
C9_Witness ==
    /\ pc = "done"
    /\ faults > 0
    /\ sheet_idx = 0
    /\ readable
    /\ result = Return(None, None)

\* the trace entries of sheet s
EntriesOf(s, col) == {t \in TraceIdx : trace[t].sheet = s /\ trace[t].col = col}

\* C10: every sheet left behind has been dealt with column by column up
\* to its end or to the exception that ended it, the sheet loop ends only
\* after the last sheet, and every series retained is still in the tables
\* and in the final table.
C10_FailureIsolation ==
    /\ \A s \in 1..Len(wb) : sheet_idx > s =>
          IF ~wb[s].ok THEN \E t \in EntriesOf(s, 0) : trace[t].out = "unreadable"
          ELSE IF NRows(wb[s]) = 0 \/ NCols(wb[s]) = 0
          THEN \E t \in EntriesOf(s, 0) : trace[t].out = "empty"
          ELSE \/ \A c \in 1..NCols(wb[s]) : Cardinality(EntriesOf(s, c)) = 1
               \/ /\ \E t \in EntriesOf(s, 0) : trace[t].out = "raised"
                  /\ \E c \in 1..NCols(wb[s]) :
                        /\ \A b \in 1..(c - 1) : Cardinality(EntriesOf(s, b)) = 1
                        /\ \A b \in c..NCols(wb[s]) : EntriesOf(s, b) = {}
    /\ pc \in {"qa", "final"} \/ (pc = "done" /\ sheet_idx > 0) => sheet_idx = Len(wb) + 1
    /\ \A t \in Kept :
          /\ trace[t].code \in DOMAIN all_data
          /\ \E i \in 1..Len(all_metadata) : all_metadata[i].CODE = trace[t].code
          /\ trace[t].code \in DOMAIN sheet_data[wb[trace[t].sheet].name]
          /\ final_data # NoTable => trace[t].code \in SeriesKeys(final_data)

\* a column raised between two retained ones, the later in the same sheet,
\* and the final table holds both
C10_Witness ==
    /\ final_data # NoTable
    /\ \E i, j, k \in TraceIdx :
          /\ i < j /\ j < k
          /\ trace[i].out = "kept"
          /\ trace[j].out = "raised" /\ trace[j].col > 0
          /\ trace[k].out = "kept" /\ trace[k].sheet = trace[j].sheet
          /\ {trace[i].code, trace[k].code} \subseteq SeriesKeys(final_data)

\* C11: the QA workbook holds one sheet for every sheet of the source
\* workbook, whether or not a series was retained from it.
C11_SheetPerSource ==
    qa_book # NoTable =>
       \A s \in 1..Len(wb) : CleanSheetName(wb[s].name) \in DOMAIN qa_book

\* the places <<sheet name, index>> of the per-sheet metadata that hold
\* the record rec
PlacesOf(rec) ==
    {pl \in UNION {{<<n, i>> : i \in 1..Len(sheet_metadata[n])} : n \in DOMAIN sheet_metadata} :
        sheet_metadata[pl[1]][pl[2]] = rec}

\* C12: every retained series is in the per-sheet data and metadata of
\* its source sheet and of no other sheet; the per-sheet series together
\* are the global ones, with the same values and metadata records; and a
\* QA sheet holds the series of its sheet as the final table holds them.
C12_SheetPartition ==
    /\ \A t \in Kept : \A n \in DOMAIN sheet_data :
          /\ trace[t].code \in DOMAIN sheet_data[n] <=> n = wb[trace[t].sheet].name
          /\ (\E i \in 1..Len(sheet_metadata[n]) : sheet_metadata[n][i].CODE = trace[t].code)
                <=> n = wb[trace[t].sheet].name
    /\ UNION {DOMAIN sheet_data[n] : n \in DOMAIN sheet_data} = DOMAIN all_data
    /\ \A n \in DOMAIN sheet_data : \A c \in DOMAIN sheet_data[n] :
          sheet_data[n][c] = all_data[c]
    /\ \A i \in 1..Len(all_metadata) : Cardinality(PlacesOf(all_metadata[i])) = 1
    /\ \A n \in DOMAIN sheet_metadata : \A i \in 1..Len(sheet_metadata[n]) :
          \E j \in 1..Len(all_metadata) : all_metadata[j] = sheet_metadata[n][i]
    /\ qa_book # NoTable =>
          \A n \in DOMAIN qa_book :
             /\ SeriesKeys(qa_book[n]) = DOMAIN sheet_data[n]
             /\ final_data # NoTable =>
                   \A c \in SeriesKeys(qa_book[n]) : qa_book[n][c] = final_data[c]

\* a run has ended with series from two sheets, two of them from one
\* sheet, in a QA workbook of two sheets and in the final table
C12_Witness ==
    /\ pc = "done"
    /\ final_data # NoTable
    /\ Cardinality(DOMAIN qa_book) = 2
    /\ \E n \in DOMAIN qa_book : Cardinality(SeriesKeys(qa_book[n])) >= 2

\* C13: the registry is empty when a run starts, and a run that processes
\* the workbook an earlier run of the same mapper has processed issues the
\* CODEs the earlier run issued.
C13_RegistryPerRun ==
    /\ pc = "start" => processed_codes = <<>>
    /\ ( /\ pc = "done"
         /\ faults = 0
         /\ earlier # <<>>
         /\ earlier[Len(earlier)] # <<>>
         /\ sheet_idx > Len(wb) )
       => IssuedCodes(all_metadata) = earlier[Len(earlier)]

(* ------------------------------------------------------------------ *)
(* The functions of the mapper, each applied to inputs of its own      *)
(* ------------------------------------------------------------------ *)
\* everything but the probe
mapper == <<wb, readable, pc, master_periods, sheet_idx, col_idx, all_data,
            all_metadata, sheet_data, sheet_metadata, processed_codes, qa_path,
            qa_book, final_data, meta_table, files, result, faults, trace, earlier>>

\* a function, its argument, and its value once it has been applied
Probe(fn, arg) == [fn |-> fn, arg |-> arg, done |-> FALSE, out |-> None]
Applied(p, out) == [p EXCEPT !.done = TRUE, !.out = out]

\* date strings: every month of the years probed, on three days, in the
\* five layouts of date_formats and in one layout of none of them
DateLayouts == {"d/m/Y", "m/d/Y", "Y-m-d", "d-m-Y", "Y/m/d", "d.m.Y"}
DateString(layout, y, m, d) ==
    CASE layout = "d/m/Y" -> DStr("/", Fld(d, 2), Fld(m, 2), Fld(y, 4))
      [] layout = "m/d/Y" -> DStr("/", Fld(m, 2), Fld(d, 2), Fld(y, 4))
      [] layout = "Y-m-d" -> DStr("-", Fld(y, 4), Fld(m, 2), Fld(d, 2))
      [] layout = "d-m-Y" -> DStr("-", Fld(d, 2), Fld(m, 2), Fld(y, 4))
      [] layout = "Y/m/d" -> DStr("/", Fld(y, 4), Fld(m, 2), Fld(d, 2))
      [] layout = "d.m.Y" -> DStr(".", Fld(d, 2), Fld(m, 2), Fld(y, 4))
YearsProbed == (2022 - ProbeYears)..2021
DateStrings ==
    {DateString(l, y, m, d) : l \in DateLayouts, y \in YearsProbed, m \in 1..12, d \in {1, 15, 31}}

\* serial numbers at and around the limits of the two tests, and the
\* serial of the specification's example
Serials == {-1, 0, 1, 2, 32873, 32874, 36585, 43831, 47848, 47849, 79999, 80000, 80001}

DateProbes ==
    {Probe("format_date_to_quarter", [cell |-> c, npint |-> FALSE]) :
        c \in DateStrings \cup {Native(y, m) : y \in YearsProbed, m \in 1..12}
                          \cup {Empty, Text(<<"GDP">>)}}
    \cup {Probe("format_date_to_quarter", [cell |-> Num(n), npint |-> b]) :
            n \in Serials, b \in BOOLEAN}

\* the sheets of the pool, and each of their columns
PoolSheets ==
    {SheetPool("A", k)[i] : i \in 1..9, k \in RowCounts}
PoolColumns ==
    UNION {{[df |-> df, col |-> c] : c \in 1..NCols(df)} :
              df \in {d \in PoolSheets : d.ok /\ NRows(d) > 0}}

\* what a description pattern may give: nothing, or one of two
\* descriptions of each number of parts up to MaxParts
Parts(word, n) == [i \in 1..n |-> <<V(word)>>]
PatternResults == {None} \cup {Parts(w, n) : w \in {"GDP", "CPI"}, n \in 1..MaxParts}

DescriptionProbes ==
    {Probe("best_description", ds) : ds \in [1..5 -> PatternResults]}
    \cup {Probe("extract_smart_description", a) : a \in PoolColumns}

\* parts of a description: one that cleaning leaves blank, one without a
\* word longer than 2, one of a single word, one of three words of which
\* two are kept, and one of four words
PartKinds ==
    { <<V("(%)")>>,
      <<V("of")>>,
      <<V("GDP")>>,
      <<V("(RBNZ)"), V("of"), V("Index")>>,
      <<V("GDP"), V("RBNZ"), V("Millions"), V("CPI")>> }
ShortParts == { <<V("(%)")>>, <<V("GDP")>>, <<V("CPI")>> }

\* descriptions of up to DescLen parts of any kind, and of up to three
\* parts more of the short kinds
Descriptions ==
    UNION {[1..n -> PartKinds] : n \in 0..DescLen}
    \cup UNION {[1..n -> ShortParts] : n \in (DescLen + 1)..(DescLen + 3)}

CodeProbes == {Probe("generate_code", d) : d \in Descriptions}

\* a sheet of 6 rows and 4 columns: numbers in the data column, a date
\* string in the cells of columns 1..3 whose <<row, column>> is in dated,
\* each with a quarter of its own, and nothing elsewhere
DateIndex(r, c) == 3 * (r - 1) + (c - 1)
LookupSheet(dated, col) ==
    Sheet("A", TRUE, 4,
          [r \in 1..6 |->
             [c \in 1..4 |->
                IF c = col THEN Num(100 + r)
                ELSE IF <<r, c>> \in dated THEN DMY(DateIndex(r, c))
                ELSE Empty]])

\* up to MaxDates dated cells; the data column inside and outside of the
\* date columns; a row at the top, one in the middle, one at the bottom
LookupProbes ==
    {Probe("date_found", [df |-> LookupSheet(dated, col), dated |-> dated, r |-> r, col |-> col]) :
        dated \in {D \in SUBSET ((1..6) \X (1..3)) : Cardinality(D) <= MaxDates},
        r \in {1, 3, 6},
        col \in {1, 2, 4}}

\* descriptions of 1..MaxWords parts of one word each, the words being
\* those the classification looks for and one it does not
UnitWords ==
    {"GDP", "(%)", "Percent", "Percentage", "Index", "Idx", "$", "Dollars", "NZD",
     "Millions", "Currency", "000s", "Thousands"}
UnitDescriptions ==
    UNION {{[i \in 1..n |-> <<V(ws[i])>>] : ws \in [1..n -> UnitWords]} : n \in 1..MaxWords}

MetadataProbes == {Probe("metadata", d) : d \in UnitDescriptions}

\* k rows with a date in column D only
FarSheet(name, k) ==
    Sheet(name, TRUE, 5,
      [r \in 1..k |-> << Empty, HeaderCell(r), Num(r), DMY(r - 1), Num(100 + r) >>])

\* the workbooks of the runs, and workbooks with such a sheet: alone,
\* before a sheet without any date, before a sheet with dates, and after
\* a sheet that cannot be read
ScanBooks ==
    Workbooks
    \cup UNION {{ <<FarSheet("A", k)>>,
                  <<FarSheet("A", k), ValuesSheet("B", k)>>,
                  <<FarSheet("A", k), DistinctSheet("B", k)>>,
                  <<BadSheet("A", k), FarSheet("B", k)>> } : k \in RowCounts}

ScanProbes ==
    {Probe("scan_for_date_range", [book |-> b, readable |-> x]) :
        b \in ScanBooks, x \in BOOLEAN}

Probes ==
    DateProbes \cup DescriptionProbes \cup CodeProbes \cup LookupProbes \cup MetadataProbes
    \cup ScanProbes

FunctionsInit ==
    /\ wb = <<>>
    /\ readable = TRUE
    /\ pc = "start"
    /\ master_periods = <<>>
    /\ sheet_idx = 0
    /\ col_idx = 0
    /\ all_data = NoTable
    /\ all_metadata = <<>>
    /\ sheet_data = NoTable
    /\ sheet_metadata = NoTable
    /\ processed_codes = <<>>
    /\ qa_path = None
    /\ qa_book = NoTable
    /\ final_data = NoTable
    /\ meta_table = <<>>
    /\ files = {}
    /\ result = "running"
    /\ faults = 0
    /\ trace = <<>>
    /\ earlier = <<>>
    /\ probe \in Probes

\* format_date_to_quarter is applied to a cell
FormatDate ==
    /\ probe.fn = "format_date_to_quarter"
    /\ ~probe.done
    /\ probe' = Applied(probe, format_date_to_quarter(probe.arg.cell, probe.arg.npint))
    /\ UNCHANGED mapper

\* extract_smart_description, lines 237-257, is applied to the outputs of
\* the five patterns
SelectBest ==
    /\ probe.fn = "best_description"
    /\ ~probe.done
    /\ probe' = Applied(probe, OrFallback(BestOf(probe.arg), "A", 1))
    /\ UNCHANGED mapper

\* extract_smart_description is applied to a column of a sheet
SmartDescription ==
    /\ probe.fn = "extract_smart_description"
    /\ ~probe.done
    /\ probe' = Applied(probe, extract_smart_description(probe.arg.df, probe.arg.col))
    /\ UNCHANGED mapper

\* generate_code is applied to a description
GenerateCode ==
    /\ probe.fn = "generate_code"
    /\ ~probe.done
    /\ probe' = Applied(probe, generate_code(probe.arg))
    /\ UNCHANGED mapper

\* _extract_time_series_advanced, lines 510-535: the date of a numeric row
LookupPeriod ==
    /\ probe.fn = "date_found"
    /\ ~probe.done
    /\ probe' = Applied(probe, FindDate(probe.arg.df, probe.arg.r, probe.arg.col))
    /\ UNCHANGED mapper

\* _extract_time_series_advanced, lines 600-617: the metadata record of a
\* description
Classify ==
    /\ probe.fn = "metadata"
    /\ ~probe.done
    /\ probe' = Applied(probe, Metadata(generate_code(probe.arg), probe.arg))
    /\ UNCHANGED mapper

\* scan_for_date_range is applied to a workbook
ScanRange ==
    /\ probe.fn = "scan_for_date_range"
    /\ ~probe.done
    /\ probe' = Applied(probe, scan_for_date_range(probe.arg.book, probe.arg.readable))
    /\ UNCHANGED mapper

FunctionsNext ==
    \/ FormatDate
    \/ LookupPeriod
    \/ GenerateCode
    \/ SelectBest
    \/ SmartDescription
    \/ Classify
    \/ ScanRange

Functions == FunctionsInit /\ [][FunctionsNext]_vars

\* the probe is a date conversion that has been made
Converted == probe.fn = "format_date_to_quarter" /\ probe.done

\* the quarter of each month
QuarterOfMonth ==
    [m \in 1..12 |-> IF m \in {1, 2, 3} THEN 1 ELSE IF m \in {4, 5, 6} THEN 2
                     ELSE IF m \in {7, 8, 9} THEN 3 ELSE 4]

\* C14: a date string that one of the formats parses to year y and month
\* m, and a native date of year y and month m, give the label y-Qn with n
\* the quarter of m, which is in 1..4; 2021-05-15 gives 2021-Q2, 2021-01-01
\* gives 2021-Q1 and 2021-12-31 gives 2021-Q4.
C14_QuarterConversion ==
    Converted =>
       /\ probe.arg.cell.t = "S" /\ TryFormats(probe.arg.cell) # None =>
             /\ probe.out # None
             /\ probe.out[1][1] = TryFormats(probe.arg.cell)[1][1]
             /\ probe.out[1][2] = QuarterOfMonth[TryFormats(probe.arg.cell)[1][2]]
       /\ probe.arg.cell.t = "D" =>
             probe.out = Some(<<probe.arg.cell.y, QuarterOfMonth[probe.arg.cell.m]>>)
       /\ probe.out # None => probe.out[1][2] \in 1..4
       /\ probe.arg.cell = DateString("Y-m-d", 2021, 5, 15) =>
             probe.out # None /\ LabelStr(probe.out[1]) = <<50, 48, 50, 49, 45, 81, 50>>
       /\ probe.arg.cell = DateString("Y-m-d", 2021, 1, 1) =>
             probe.out # None /\ LabelStr(probe.out[1]) = <<50, 48, 50, 49, 45, 81, 49>>
       /\ probe.arg.cell = DateString("Y-m-d", 2021, 12, 31) =>
             probe.out # None /\ LabelStr(probe.out[1]) = <<50, 48, 50, 49, 45, 81, 52>>

\* the date string 31/12/2021 has been converted to a label of quarter 4
C14_Witness ==
    /\ Converted
    /\ probe.arg.cell = DateString("d/m/Y", 2021, 12, 31)
    /\ probe.out = Some(<<2021, 4>>)

\* C15: a numeric cell n is converted to a label exactly when n is in
\* 1..80000 and 1899-12-30 plus n days is in the years 1990..2030, that is
\* when n is in 32874..47848; the label is that of this date, 2000-Q1 for
\* 36585; any other number gives None.
C15_SerialDates ==
    Converted /\ probe.arg.cell.t = "N" =>
       /\ probe.out # None <=> probe.arg.cell.v \in 32874..47848
       /\ probe.arg.cell.v = 36585 => probe.out = Some(<<2000, 1>>)
       /\ probe.arg.cell.v = 32874 => probe.out = Some(<<1990, 1>>)
       /\ probe.arg.cell.v = 47848 => probe.out = Some(<<2030, 4>>)

\* description d is the choice among the pattern outputs ds: the output
\* with the most parts, the earliest of them if there are several, and
\* the fallback text when no pattern gave anything
Chosen(ds, d, name, col) ==
    IF \A i \in 1..5 : ds[i] = None
    THEN d = FallbackDescription(name, col)
    ELSE \E k \in 1..5 :
            /\ ds[k] # None
            /\ d = ds[k]
            /\ \A j \in 1..5 : ds[j] # None => Len(ds[j]) <= Len(ds[k])
            /\ \A j \in 1..(k - 1) : ds[j] # None => Len(ds[j]) < Len(ds[k])

\* C16: the description returned is the pattern output with the strictly
\* highest number of parts, the earliest pattern winning a tie, the
\* patterns taken in the order 1..5; it is the fallback text when every
\* pattern yields nothing; and it is never empty.
C16_DescriptionSelection ==
    /\ probe.fn = "best_description" /\ probe.done =>
          Chosen(probe.arg, probe.out, "A", 1)
    /\ probe.fn = "extract_smart_description" /\ probe.done =>
          Chosen(<< extract_description_pattern1(probe.arg.df, probe.arg.col),
                    extract_description_pattern2(probe.arg.df, probe.arg.col),
                    extract_description_pattern3(probe.arg.df, probe.arg.col),
                    extract_description_pattern4(probe.arg.df, probe.arg.col),
                    extract_description_pattern5(probe.arg.df, probe.arg.col) >>,
                 probe.out, probe.arg.df.name, probe.arg.col)
    /\ probe.fn \in {"best_description", "extract_smart_description"} /\ probe.done =>
          /\ probe.out # None
          /\ \E p \in 1..Len(probe.out) : TextLen(probe.out[p]) > 0

\* patterns 2 and 4 tie with the most parts, pattern 1 has fewer, and the
\* output of pattern 2 has been returned
C16_Witness ==
    /\ probe.fn = "best_description" /\ probe.done
    /\ probe.arg[1] # None /\ probe.arg[2] # None /\ probe.arg[4] # None
    /\ Len(probe.arg[1]) < Len(probe.arg[2])
    /\ Len(probe.arg[2]) = Len(probe.arg[4])
    /\ probe.arg[2] # probe.arg[4]
    /\ probe.out = probe.arg[2]

\* the step retains a column as a series
Retains ==
    /\ pc = "col"
    /\ Len(trace') = Len(trace) + 1
    /\ trace'[Len(trace')].out = "kept"

\* the code to be issued for base_code against the registry
Expected(base_code, registry) ==
    IF base_code \notin registry THEN base_code
    ELSE Suffixed(base_code,
                  First({n \in 1..(Cardinality(registry) + 1) :
                            Suffixed(base_code, n) \notin registry}))

\* C17: the code issued for a retained series is the base code generated
\* from its description if the registry does not hold it, otherwise the
\* base code with .n.Q for .Q, n the least integer from 1 on for which the
\* registry does not hold the result; and it is added to the registry.
C17_CollisionSuffix ==
    [][ Retains =>
          \A base_code \in {generate_code(extract_smart_description(wb[sheet_idx], col_idx))} :
             /\ trace'[Len(trace')].code = Expected(base_code, Codes(processed_codes))
             /\ processed_codes' = Append(processed_codes, trace'[Len(trace')].code) ]_vars

\* a series has been issued its base code with .2.Q, the base code and the
\* one with .1.Q being in the registry before it
C17_Witness ==
    \E i, j, k \in 1..Len(processed_codes) :
       /\ i < j /\ j < k
       /\ processed_codes[j] = Suffixed(processed_codes[i], 1)
       /\ processed_codes[k] = Suffixed(processed_codes[i], 2)

\* the cleaned, uppercased words of a part that are longer than 2, in order
Survivors(part) ==
    LET Long(w) == Len(w) > 2
    IN  SelectSeq([i \in 1..Len(part) |-> part[i].c], Long)

\* the parts of a description that cleaning does not leave blank, in order
Cleaned(description) ==
    LET NotBlank(part) == \E i \in 1..Len(part) : Len(part[i].c) > 0
    IN  SelectSeq(description, NotBlank)

\* the up to 3 first surviving words of each part, one part after the other
RECURSIVE Joined(_)
Joined(parts) ==
    IF parts = <<>> THEN <<>>
    ELSE SubSeq(Survivors(parts[1]), 1, Min(3, Len(Survivors(parts[1]))))
         \o Joined(Tail(parts))

\* the body of the code of a description
Body(description) ==
    Joined(SubSeq(Cleaned(description), 1, Min(6, Len(Cleaned(description)))))

\* C18: the code of a description is CBP.NZL.<body>.Q, the body being the
\* uppercased words longer than 2 of the first 6 non-blank parts of the
\* cleaned description, up to 3 from each part and up to 8 in all, in
\* their order, and UNKNOWN.SERIES when there is no such word.
C18_CodeGeneration ==
    probe.fn = "generate_code" /\ probe.done =>
       /\ Body(probe.arg) = <<>> => probe.out = <<"CBP", "NZL", "UNKNOWN", "SERIES", "Q">>
       /\ Body(probe.arg) # <<>> =>
             probe.out = <<"CBP", "NZL">>
                         \o SubSeq(Body(probe.arg), 1, Min(8, Len(Body(probe.arg))))
                         \o <<"Q">>

\* a description of 7 parts, the only blank one among the first 6, has
\* got a code with the words of the other 6 parts, the seventh included
C18_Witness ==
    /\ probe.fn = "generate_code" /\ probe.done
    /\ Len(probe.arg) = 7
    /\ \E i \in 1..6 : probe.arg[i] = <<V("(%)")>>
    /\ Len(Cleaned(probe.arg)) = 6
    /\ Len(probe.out) = 9

\* the cells of row r in the first 3 columns, the data column left out,
\* lowest column first; none if the sheet has no such row
CellsOfRow(r, col) ==
    LET Other(cell) == cell[2] # col
    IN  IF r \in 1..6 THEN SelectSeq(<< <<r, 1>>, <<r, 2>>, <<r, 3>> >>, Other) ELSE <<>>

\* the cells in the order the claim gives: the row itself, then the row
\* above, the row itself, the row below and the second row below
LookupOrder(r, col) ==
    CellsOfRow(r, col) \o CellsOfRow(r - 1, col) \o CellsOfRow(r, col)
    \o CellsOfRow(r + 1, col) \o CellsOfRow(r + 2, col)

\* the label of the date string put into cell <<r, c>>
LabelOfCell(cell) ==
    <<2020 + (DateIndex(cell[1], cell[2]) \div 4), (DateIndex(cell[1], cell[2]) % 4) + 1>>

\* C19: the period of a numeric row is the date of the first dated cell
\* among the first 3 columns of the row, the data column left out; if the
\* row has none, that of the first dated cell of the rows at offsets -1,
\* 0, +1, +2 in this order; and none if these rows have no dated cell,
\* whatever rows further away hold.
C19_LookupOrder ==
    probe.fn = "date_found" /\ probe.done =>
       \A order \in {LookupOrder(probe.arg.r, probe.arg.col)} :
          IF \A i \in 1..Len(order) : order[i] \notin probe.arg.dated
          THEN probe.out = None
          ELSE probe.out =
                 Some(LabelOfCell(order[First({i \in 1..Len(order) :
                                                  order[i] \in probe.arg.dated})]))

\* the row above and the row below hold a date, the row itself holds
\* none, and the date of the row above has been found
C19_Witness ==
    /\ probe.fn = "date_found" /\ probe.done
    /\ probe.arg.r = 3
    /\ \E a, b \in 1..3 :
          /\ probe.arg.dated = {<<2, a>>, <<4, b>>}
          /\ a # probe.arg.col /\ b # probe.arg.col
          /\ probe.out = Some(LabelOfCell(<<2, a>>))

\* the step has run the extraction of a column to its end
Extracts ==
    /\ pc = "col"
    /\ Len(trace') = Len(trace) + 1
    /\ trace'[Len(trace')].out \in {"kept", "none"}

\* C20: every period a column assigns a value to, found in the row, in a
\* neighbouring row or by position, is a label of the master timeline; the
\* re-projection has as many non-null entries as there are resolved
\* periods; and a column of 8 or more resolved periods is retained with
\* that many non-null values.
C20_PeriodsOnTimeline ==
    [][ Extracts =>
          \A nd \in {NumericData(wb[sheet_idx], col_idx, master_periods)} :
             /\ DOMAIN ScanColumn(wb[sheet_idx], col_idx).nd
                   \subseteq {master_periods[i] : i \in 1..Len(master_periods)}
             /\ DOMAIN nd \subseteq {master_periods[i] : i \in 1..Len(master_periods)}
             /\ CountValues(Project(nd, master_periods)) = Cardinality(DOMAIN nd)
             /\ Cardinality(DOMAIN nd) >= MinPoints =>
                   /\ trace'[Len(trace')].out = "kept"
                   /\ CountValues(all_data'[trace'[Len(trace')].code]) = Cardinality(DOMAIN nd)
      ]_vars

\* a column has been retained whose numeric rows take their periods from
\* a neighbouring row, and one whose rows take them by position
C20_Witness ==
    /\ \E t \in Kept : \E r \in 1..NRows(wb[trace[t].sheet]) :
          /\ IsNumeric(At(wb[trace[t].sheet], r, trace[t].col))
          /\ RowDate(wb[trace[t].sheet], r, trace[t].col) = None
          /\ NearbyDate(wb[trace[t].sheet], r, trace[t].col) # None
    /\ \E t \in Kept : Undated(wb[trace[t].sheet], trace[t].col)

\* the numeric rows of the column that resolve to a period, the labels
\* they resolve to, and the last of the rows that resolve to label p
ResolvedRows(df, col) ==
    {r \in 1..NRows(df) : IsNumeric(At(df, r, col)) /\ FindDate(df, r, col) # None}
ResolvedLabels(df, col) == {FindDate(df, r, col)[1] : r \in ResolvedRows(df, col)}
LastRowOf(df, col, p) == Last({r \in ResolvedRows(df, col) : FindDate(df, r, col) = Some(p)})

\* C21: of the numeric rows of a column that resolve to one quarter label
\* the one with the highest row index gives the value kept for the
\* quarter, and a column with resolved rows is retained if and only if
\* they cover 8 or more distinct quarters, however many rows there are.
C21_LastRowWins ==
    [][ Extracts /\ ResolvedRows(wb[sheet_idx], col_idx) # {} =>
          \A labels \in {ResolvedLabels(wb[sheet_idx], col_idx)} :
             /\ trace'[Len(trace')].out = "kept" <=> Cardinality(labels) >= MinPoints
             /\ trace'[Len(trace')].out = "kept" =>
                   \A series \in {all_data'[trace'[Len(trace')].code]} :
                      /\ CountValues(series) = Cardinality(labels)
                      /\ \A i \in 1..Len(series) :
                            series[i] =
                               IF master_periods[i] \in labels
                               THEN Some(At(wb[sheet_idx],
                                            LastRowOf(wb[sheet_idx], col_idx, master_periods[i]),
                                            col_idx).v)
                               ELSE None
      ]_vars

\* the column of trace entry t has n or more numeric rows that resolve to
\* a period
DatedRows(t, n) == Cardinality(ResolvedRows(wb[trace[t].sheet], trace[t].col)) >= n

\* a column was retained in which three rows resolve to one quarter, and
\* a column of 8 resolved rows on fewer than 8 quarters was discarded
C21_Witness ==
    /\ \E t \in Kept : \E p \in ResolvedLabels(wb[trace[t].sheet], trace[t].col) :
          Cardinality({r \in ResolvedRows(wb[trace[t].sheet], trace[t].col) :
                          FindDate(wb[trace[t].sheet], r, trace[t].col) = Some(p)}) = 3
    /\ \E t \in TraceIdx :
          /\ trace[t].out = "none"
          /\ trace[t].col > 0
          /\ DatedRows(t, MinPoints)
          /\ Cardinality(ResolvedLabels(wb[trace[t].sheet], trace[t].col)) < MinPoints

\* the numeric rows of the column that resolve to no period
UnresolvedRows(df, col) ==
    {r \in 1..NRows(df) : IsNumeric(At(df, r, col)) /\ FindDate(df, r, col) = None}

\* C23: when a numeric row of the column resolves to a period, the values
\* of the numeric rows without a period are nowhere in the series and the
\* column is retained only on 8 resolved quarters, however many numeric
\* rows it has; a series that holds the value of a row without a period
\* comes from a column none of whose rows resolves to a period.
C23_AllOrNothing ==
    [][ Extracts =>
          \A resolved \in {ResolvedRows(wb[sheet_idx], col_idx)},
             unresolved \in {UnresolvedRows(wb[sheet_idx], col_idx)} :
             /\ resolved # {} /\ trace'[Len(trace')].out = "kept" =>
                   /\ Cardinality(ResolvedLabels(wb[sheet_idx], col_idx)) >= MinPoints
                   /\ \A r \in unresolved :
                         \A i \in 1..Len(all_data'[trace'[Len(trace')].code]) :
                            all_data'[trace'[Len(trace')].code][i]
                               # Some(At(wb[sheet_idx], r, col_idx).v)
                   /\ CountValues(all_data'[trace'[Len(trace')].code])
                         <= Cardinality(resolved)
             /\ resolved # {} /\ Cardinality(ResolvedLabels(wb[sheet_idx], col_idx)) < MinPoints =>
                   trace'[Len(trace')].out = "none"
             /\ ( /\ trace'[Len(trace')].out = "kept"
                  /\ \E r \in unresolved :
                        \E i \in 1..Len(all_data'[trace'[Len(trace')].code]) :
                           all_data'[trace'[Len(trace')].code][i]
                              = Some(At(wb[sheet_idx], r, col_idx).v) )
                => resolved = {}
      ]_vars

\* a column with resolved rows and rows without a period was retained;
\* another, of 9 numeric rows of which 7 resolve, was discarded; and one
\* without any resolved row was retained
C23_Witness ==
    /\ \E t \in Kept :
          /\ DatedRows(t, MinPoints)
          /\ UnresolvedRows(wb[trace[t].sheet], trace[t].col) # {}
    /\ \E t \in TraceIdx :
          /\ trace[t].out = "none"
          /\ trace[t].col > 0
          /\ Cardinality(ResolvedRows(wb[trace[t].sheet], trace[t].col)) = MinPoints - 1
          /\ Cardinality(UnresolvedRows(wb[trace[t].sheet], trace[t].col)) = 2
    /\ \E t \in Kept : ResolvedRows(wb[trace[t].sheet], trace[t].col) = {}

\* the entry of the re-projection at place i of the timeline
Projected(nd, i) ==
    IF master_periods[i] \in DOMAIN nd THEN Some(nd[master_periods[i]]) ELSE None

\* C22: the series of a retained column is the re-projection of its values
\* onto the master timeline without the null entries at its end: it has
\* from 8 to len(master_periods) entries, the nulls before and between the
\* values are in it, every entry left out is null, a series of more than 8
\* entries ends in a value, and a column is retained exactly when 8 or
\* more of the entries are values.
C22_Trimming ==
    [][ Extracts =>
          \A nd \in {NumericData(wb[sheet_idx], col_idx, master_periods)} :
             /\ trace'[Len(trace')].out = "kept" <=>
                   Cardinality({i \in 1..Len(master_periods) : Projected(nd, i) # None})
                      >= MinPoints
             /\ trace'[Len(trace')].out = "kept" =>
                   \A series \in {all_data'[trace'[Len(trace')].code]} :
                      /\ MinPoints <= Len(series) /\ Len(series) <= Len(master_periods)
                      /\ \A i \in 1..Len(series) : series[i] = Projected(nd, i)
                      /\ \A i \in (Len(series) + 1)..Len(master_periods) : Projected(nd, i) = None
                      /\ Len(series) > MinPoints => series[Len(series)] # None
                      /\ CountValues(series) >= MinPoints
      ]_vars

\* before the output is padded, on a timeline of 12 labels: a series cut
\* to 8 entries, one cut to 10 entries with a null between its values,
\* and one of 12 entries that begins with nulls
C22_Witness ==
    /\ pc \in {"col", "sheet", "qa"}
    /\ Len(master_periods) = 12
    /\ \E c \in DOMAIN all_data : Len(all_data[c]) = MinPoints
    /\ \E c \in DOMAIN all_data :
          /\ Len(all_data[c]) = 10
          /\ \E i \in 2..9 : all_data[c][i] = None
    /\ \E c \in DOMAIN all_data :
          /\ Len(all_data[c]) = 12
          /\ all_data[c][1] = None

\* C24: on a master timeline of fewer than 8 labels, the empty one
\* included, no column is retained, by its dates or by position: the
\* tables stay empty, no artifact is written and run returns (None, None).
C24_ShortTimeline ==
    (pc \notin {"start", "scan"} /\ Len(master_periods) < MinPoints) =>
       /\ Kept = {}
       /\ DOMAIN all_data = {}
       /\ all_metadata = <<>>
       /\ processed_codes = <<>>
       /\ files = {}
       /\ qa_book = NoTable
       /\ final_data = NoTable
       /\ pc \notin {"qa", "final"}
       /\ pc = "done" => result = Return(None, None)

\* on a timeline of 1..7 labels a run has ended in which a column of 8 or
\* more dated values and a column of 8 or more values without any date
\* were discarded
C24_Witness ==
    /\ pc = "done"
    /\ readable
    /\ faults = 0
    /\ Len(master_periods) \in 1..(MinPoints - 1)
    /\ \E t \in TraceIdx :
          /\ trace[t].out = "none" /\ trace[t].col > 0
          /\ DatedRows(t, MinPoints)
    /\ \E t \in TraceIdx :
          /\ trace[t].out = "none" /\ trace[t].col > 0
          /\ ResolvedRows(wb[trace[t].sheet], trace[t].col) = {}
          /\ Cardinality(UnresolvedRows(wb[trace[t].sheet], trace[t].col)) >= MinPoints
    /\ result = Return(None, None)

\* the probe is a classification that has been made
Classified == probe.fn = "metadata" /\ probe.done

\* the words of a description
WordsOf(description) ==
    UNION {{description[p][i].s : i \in 1..Len(description[p])} : p \in 1..Len(description)}

\* the rows of the decision table: the words that match each row, in
\* order, and what the row gives
UnitTable ==
    << [words |-> {"(%)", "Percent", "Percentage"}, unit |-> <<"LEVEL", "PERCENT", "PERCENT">>],
       [words |-> {"Index", "Idx"}, unit |-> <<"LEVEL", "INDEX", "INDEX">>],
       [words |-> {"$", "Dollars", "NZD", "Millions", "Currency"},
        unit |-> <<"FLOW", "CURRENCY", "NZD">>],
       [words |-> UnitWords, unit |-> <<"FLOW", "UNITS", "UNIT">>] >>

\* the rows a description matches
RowsMatched(description) ==
    {k \in 1..Len(UnitTable) : UnitTable[k].words \cap WordsOf(description) # {}}

\* C25: UNIT_TYPE, DATA_TYPE and DATA_UNIT are those of the first row of
\* the table a word of the description matches: the percent row before
\* the index row, the index row before the currency row, and (FLOW,
\* UNITS, UNIT) when none of the three matches.
C25_UnitTable ==
    Classified =>
       <<probe.out.UNIT_TYPE, probe.out.DATA_TYPE, probe.out.DATA_UNIT>>
          = UnitTable[First(RowsMatched(probe.arg))].unit

\* a description matching the currency row in its first part and the
\* percent row in its last has been classified as PERCENT
C25_Witness ==
    /\ Classified
    /\ {1, 3} \subseteq RowsMatched(probe.arg)
    /\ probe.arg[1][1].s \in {"Millions", "NZD", "Currency"}
    /\ probe.arg[Len(probe.arg)][1].s \in {"Percent", "(%)"}
    /\ probe.out.DATA_TYPE = "PERCENT"

\* C26: MULTIPLIER is 9 when the description holds 'millions', whatever
\* else it holds; 3 when it holds '000s' or 'thousands' and not
\* 'millions'; 0 otherwise; whichever row of the unit table matched. With
\* MULTIPLIER 9 the DATA_TYPE is never UNITS.
C26_Multiplier ==
    Classified =>
       /\ probe.out.MULTIPLIER =
             IF "Millions" \in WordsOf(probe.arg) THEN 9
             ELSE IF {"000s", "Thousands"} \cap WordsOf(probe.arg) # {} THEN 3
             ELSE 0
       /\ probe.out.MULTIPLIER = 9 => probe.out.DATA_TYPE # "UNITS"

\* a description of a percent sign and 'Millions' has been given
\* MULTIPLIER 9 together with DATA_TYPE PERCENT
C26_Witness ==
    /\ Classified
    /\ probe.out.MULTIPLIER = 9
    /\ probe.arg[1][1].s = "(%)"
    /\ probe.arg[Len(probe.arg)][1].s = "Millions"
    /\ probe.out.DATA_TYPE = "PERCENT"

\* a date of the calendar
ValidDate(y, m, d) == m \in 1..12 /\ d >= 1 /\ d <= DaysInMonth(y, m)

\* the reading of the fields a, b, c of a date string with separator sep
\* as day d, month m and year y, where the year has 4 digits and the
\* reading is a date of the calendar; None otherwise
Reading(cell, sep, y, m, d) ==
    IF /\ cell.sep = sep
       /\ cell.f[y].w = 4
       /\ cell.f[m].w \in {1, 2} /\ cell.f[d].w \in {1, 2}
       /\ ValidDate(cell.f[y].v, cell.f[m].v, cell.f[d].v)
    THEN Some(<<cell.f[y].v, QuarterOfMonth[cell.f[m].v]>>)
    ELSE None

\* C27: a date string is read as DD/MM/YYYY if that is a date; if not, as
\* MM/DD/YYYY; if not, as YYYY-MM-DD; if not, as DD-MM-YYYY; if not, as
\* YYYY/MM/DD; and it is no date if none of the five is one.  A string
\* with slashes that is a date both ways is read day first.
C27_FormatOrder ==
    Converted /\ probe.arg.cell.t = "S" =>
       \A c \in {probe.arg.cell} :
          probe.out =
             IF Reading(c, "/", 3, 2, 1) # None THEN Reading(c, "/", 3, 2, 1)
             ELSE IF Reading(c, "/", 3, 1, 2) # None THEN Reading(c, "/", 3, 1, 2)
             ELSE IF Reading(c, "-", 1, 2, 3) # None THEN Reading(c, "-", 1, 2, 3)
             ELSE IF Reading(c, "-", 3, 2, 1) # None THEN Reading(c, "-", 3, 2, 1)
             ELSE Reading(c, "/", 1, 2, 3)

\* 01/05/2021, a date both ways, has been read as 1 May
C27_Witness ==
    /\ Converted
    /\ probe.arg.cell = DStr("/", Fld(1, 2), Fld(5, 2), Fld(2021, 4))
    /\ Reading(probe.arg.cell, "/", 3, 1, 2) = Some(<<2021, 1>>)
    /\ probe.out = Some(<<2021, 2>>)

\* the codes of the runs, one run after the other
RECURSIVE Flatten(_)
Flatten(runs) == IF runs = <<>> THEN <<>> ELSE Head(runs) \o Flatten(Tail(runs))

\* C28: the registry holds the CODEs of the metadata records produced so
\* far, each once and in the order of the records, and nothing else; it
\* changes only when a column is retained, by the code of that column,
\* which is the CODE of the one record added with it.
C28_RegistryIsMetadata ==
    /\ [](processed_codes = Flatten(earlier) \o IssuedCodes(all_metadata))
    /\ [][ processed_codes' # processed_codes =>
             /\ Retains
             /\ processed_codes' = Append(processed_codes, trace'[Len(trace')].code)
             /\ Len(all_metadata') = Len(all_metadata) + 1
             /\ all_metadata'[Len(all_metadata')].CODE = trace'[Len(trace')].code
             /\ SubSeq(all_metadata', 1, Len(all_metadata)) = all_metadata ]_vars
    /\ [][ Extracts /\ trace'[Len(trace')].out = "none" =>
             processed_codes' = processed_codes /\ all_metadata' = all_metadata ]_vars

\* a column was discarded between two retained ones of one description,
\* and the later of the two was issued the next free suffix
C28_Witness ==
    /\ Len(processed_codes) = Cardinality(Kept)
    /\ \E i, j, k \in TraceIdx :
          /\ i < j /\ j < k
          /\ trace[i].out = "kept"
          /\ trace[j].out = "none" /\ trace[j].col > 0
          /\ trace[k].out = "kept"
          /\ \E n \in 1..3 :
                /\ trace[k].code = Suffixed(trace[i].code, n)
                /\ \A m \in 1..(n - 1) : Suffixed(trace[i].code, m) \in Codes(processed_codes)
                /\ Cardinality({t \in Kept : t < k}) = n

\* the cells of the first 3 columns of the sheets of the book that can be
\* read, as <<sheet, row, column>>, and those of them that hold a date
ScannedCells(book) ==
    UNION {{<<n, r, c>> : r \in 1..NRows(book[n]), c \in 1..Min(3, NCols(book[n]))} :
              n \in {m \in 1..Len(book) : book[m].ok}}
DateCells(book) ==
    {x \in ScannedCells(book) : DateAt(book[x[1]], x[2], x[3]) # None}

\* C29: when the workbook cannot be opened, or no cell of the first 3
\* columns of any of its sheets holds a date, scan_for_date_range returns
\* 1990-Q1, 2030-Q4 and an empty period list; otherwise it returns the
\* labels of these cells, each once, and the first and the last of them as
\* earliest and latest.
C29_DefaultRange ==
    probe.fn = "scan_for_date_range" /\ probe.done =>
       IF ~probe.arg.readable \/ DateCells(probe.arg.book) = {}
       THEN probe.out = << <<1990, 1>>, <<2030, 4>>, <<>> >>
       ELSE /\ probe.out[3] # <<>>
            /\ probe.out[1] = probe.out[3][1]
            /\ probe.out[2] = probe.out[3][Len(probe.out[3])]
            /\ {probe.out[3][i] : i \in 1..Len(probe.out[3])}
                  = {DateAt(probe.arg.book[x[1]], x[2], x[3])[1] : x \in DateCells(probe.arg.book)}
            /\ \A i, j \in 1..Len(probe.out[3]) : i # j => probe.out[3][i] # probe.out[3][j]

\* a workbook that can be read, with dates in the fourth column of a sheet
\* and in no other place, has been given the default range
C29_Witness ==
    /\ probe.fn = "scan_for_date_range" /\ probe.done
    /\ probe.arg.readable
    /\ \E n \in 1..Len(probe.arg.book) :
          /\ probe.arg.book[n].ok
          /\ NCols(probe.arg.book[n]) >= 4
          /\ \E r \in 1..NRows(probe.arg.book[n]) :
                format_date_to_quarter(At(probe.arg.book[n], r, 4), FALSE) # None
    /\ DateCells(probe.arg.book) = {}
    /\ probe.out = << <<1990, 1>>, <<2030, 4>>, <<>> >>

====
